---- MODULE Spec2Model ----
(***************************************************************************)
(* The OpenClaw Railway wrapper (server.js): one Node.js process that      *)
(* supervises the gateway child process, proxies traffic to it and serves  *)
(* the /setup administrative endpoints (console, raw config, export and    *)
(* import) and the public health endpoint.                                 *)
(*                                                                         *)
(* Scheduling.  Node runs one callback at a time.  A handler runs without  *)
(* interruption from the event that starts it to its first await of a      *)
(* pending promise, and again from the event that settles that promise to  *)
(* the next such await; awaiting an already settled promise resumes in a   *)
(* microtask, before any other event.  Each action below is one such       *)
(* uninterrupted run.  The gateway child is an independent OS process: it  *)
(* opens its port and exits on its own schedule.                           *)
(*                                                                         *)
(* Environment.  No OPENCLAW_CONFIG_PATH is set, and mkdirSync / spawn      *)
(* return normally: a process that cannot be spawned is reported by the    *)
(* child's 'error' event.  Unless a specification says otherwise, STATE_DIR *)
(* and WORKSPACE_DIR lie under /data (the template's deployment), requests *)
(* carry the setup password and the clock and the backup files are not     *)
(* followed.                                                               *)
(***************************************************************************)
EXTENDS Integers, Sequences, FiniteSets, TLC

\* ------------------------------------------------------------------ bounds
\* Concurrent request handlers (slots 1..NReq; slot 0 is the boot callback).
NReq == 1
\* Children the supervisor may spawn in one run.
MaxChildren == 2
\* Entries of an uploaded archive.
MaxEntries == 2
\* Characters of a console argument.
MaxArgLen == 2
\* The last reading of the clock, in ticks.
MaxClock == 3
\* Clock ticks in one millisecond, the resolution of a backup's timestamp.
TicksPerMs == 2
\* Cool-down windows of the doctor that the clock runs through.
MaxWindows == 2

Slots == 0..NReq
Requests == 1..NReq
ChildIds == 1..MaxChildren

\* ------------------------------------------------------------- file system
\* A path is a sequence of one-character strings.  "s" stands for the state
\* directory .openclaw, "c" for openclaw.json, "w" for the workspace.
CfgRel == <<"s", "/", "c">>

\* The legacy names of the configuration file in the state directory, in
\* the order the migration tries them: "k" stands for clawdbot.json, "m" for
\* moltbot.json.
LegacyRel == <<<<"s", "/", "k">>, <<"s", "/", "m">>>>

\* looksSafeTarPath helpers: String.prototype.split("/") on a character list.
RECURSIVE SplitSlash(_)
SplitSlash(p) ==
  IF \A i \in 1..Len(p) : p[i] # "/"
  THEN <<p>>
  ELSE LET k == CHOOSE i \in 1..Len(p) : p[i] = "/" /\ \A j \in 1..(i - 1) : p[j] # "/"
       IN <<SubSeq(p, 1, k - 1)>> \o SplitSlash(SubSeq(p, k + 1, Len(p)))

\* The character class [A-Za-z].
Letters ==
  {"a", "b", "c", "d", "e", "f", "g", "h", "i", "j", "k", "l", "m",
   "n", "o", "p", "q", "r", "s", "t", "u", "v", "w", "x", "y", "z",
   "A", "B", "C", "D", "E", "F", "G", "H", "I", "J", "K", "L", "M",
   "N", "O", "P", "Q", "R", "S", "T", "U", "V", "W", "X", "Y", "Z"}

\* A mutated predicate: the parent-directory test is dropped.
looksSafeTarPathNoDotDot(p) ==
  /\ p # <<>>
  /\ ~(p[1] = "/" \/ p[1] = "\\")
  /\ ~(Len(p) >= 3 /\ p[1] \in Letters /\ p[2] = ":" /\ p[3] \in {"\\", "/"})

\* looksSafeTarPath(p)
looksSafeTarPath(p) ==
  /\ p # <<>>
  /\ ~(p[1] = "/" \/ p[1] = "\\")
  /\ ~(Len(p) >= 3 /\ p[1] \in Letters /\ p[2] = ":" /\ p[3] \in {"\\", "/"})
  /\ ~(\E i \in 1..Len(SplitSlash(p)) : SplitSlash(p)[i] = <<".", ".">>)

\* Writing content x at path p of disk d.
WriteFile(d, p, x) == [q \in (DOMAIN d) \cup {p} |-> IF q = p THEN x ELSE d[q]]

\* fs.rmSync(p, {force: true})
RemoveFile(d, p) == [q \in (DOMAIN d) \ {p} |-> d[q]]

\* fs.renameSync(p, q): the file at p is at q afterwards, in the place of
\* what was there.
RenameFile(d, p, q) == WriteFile(RemoveFile(d, p), q, d[p])

\* A mutated unpacking: one entry failing the filter aborts the archive.
tarUnpackedFailClosed(entries) ==
  IF \E i \in 1..Len(entries) : ~looksSafeTarPath(entries[i].path)
  THEN <<>>
  ELSE entries

\* tar.x({cwd: dataRoot, filter}): the entries unpacked, in archive order.  An
\* entry for which filter returns false is skipped and unpacking goes on.
tarUnpacked(entries) ==
  LET keep(e) == looksSafeTarPath(e.path)
  IN SelectSeq(entries, keep)

\* An unpacking that mirrors the archive: what the archive does not hold is
\* removed.
WriteEntriesMirror(d, entries) ==
  LET ps == {entries[i].path : i \in 1..Len(entries)}
      last(p) == CHOOSE i \in 1..Len(entries) :
                   entries[i].path = p /\ \A j \in (i + 1)..Len(entries) : entries[j].path # p
  IN [p \in ps |-> entries[last(p)].data]

\* The disk after the unpacked entries are written below the storage root.
RECURSIVE WriteEntries(_, _)
WriteEntries(d, entries) ==
  IF entries = <<>> THEN d
  ELSE WriteEntries(WriteFile(d, Head(entries).path, Head(entries).data), Tail(entries))

\* ---------------------------------------------------------------- strings
\* String.prototype.trim() on a list of characters (or of words and blanks).
RECURSIVE TrimLeft(_)
TrimLeft(s) == IF s # <<>> /\ Head(s) = " " THEN TrimLeft(Tail(s)) ELSE s

RECURSIVE TrimRight(_)
TrimRight(s) ==
  IF s # <<>> /\ s[Len(s)] = " " THEN TrimRight(SubSeq(s, 1, Len(s) - 1)) ELSE s

Trim(s) == TrimRight(TrimLeft(s))

Digits == {"0", "1", "2", "3", "4", "5", "6", "7", "8", "9"}

DigitValue(ch) ==
  CASE ch = "0" -> 0 [] ch = "1" -> 1 [] ch = "2" -> 2 [] ch = "3" -> 3 [] ch = "4" -> 4
    [] ch = "5" -> 5 [] ch = "6" -> 6 [] ch = "7" -> 7 [] ch = "8" -> 8 [] ch = "9" -> 9

\* The longest prefix of digits of s, as a number (acc is the value so far).
RECURSIVE DigitPrefix(_, _)
DigitPrefix(s, acc) ==
  IF s # <<>> /\ Head(s) \in Digits
  THEN DigitPrefix(Tail(s), 10 * acc + DigitValue(Head(s)))
  ELSE acc

\* Number.parseInt(s, 10): blanks, an optional sign, then digits; NaN (nan is
\* TRUE) when no digit follows.
ParseInt(s0) ==
  LET s == TrimLeft(s0)
      signed == s # <<>> /\ Head(s) \in {"+", "-"}
      body == IF signed THEN Tail(s) ELSE s
  IN IF body = <<>> \/ Head(body) \notin Digits THEN [nan |-> TRUE, val |-> 0]
     ELSE IF signed /\ Head(s) = "-" THEN [nan |-> FALSE, val |-> 0 - DigitPrefix(body, 0)]
     ELSE [nan |-> FALSE, val |-> DigitPrefix(body, 0)]

\* String(n) of a non-negative integer: its decimal digits.
DigitChar(v) ==
  CASE v = 0 -> "0" [] v = 1 -> "1" [] v = 2 -> "2" [] v = 3 -> "3" [] v = 4 -> "4"
    [] v = 5 -> "5" [] v = 6 -> "6" [] v = 7 -> "7" [] v = 8 -> "8" [] v = 9 -> "9"

RECURSIVE DecimalString(_)
DecimalString(n) ==
  IF n < 10 THEN <<DigitChar(n)>> ELSE DecimalString(n \div 10) \o <<DigitChar(n % 10)>>

Max(a, b) == IF a >= b THEN a ELSE b
Min(a, b) == IF a <= b THEN a ELSE b

\* ------------------------------------------------------------ the console
ALLOWED_CONSOLE_COMMANDS ==
  {"gateway.restart", "gateway.stop", "gateway.start",
   "openclaw.version", "openclaw.status", "openclaw.health", "openclaw.doctor",
   "openclaw.logs.tail", "openclaw.config.get",
   "openclaw.devices.list", "openclaw.devices.approve",
   "openclaw.plugins.list", "openclaw.plugins.enable"}

\* A mutated test: the identifier's first word decides.
isAllowedByPrefix(c) == c # <<>> /\ c[1] \in ALLOWED_CONSOLE_COMMANDS

\* ALLOWED_CONSOLE_COMMANDS.has(cmd), cmd being the trimmed identifier.
isAllowed(c) == Len(c) = 1 /\ c[1] \in ALLOWED_CONSOLE_COMMANDS

LifecycleCommands == {"gateway.restart", "gateway.stop", "gateway.start"}

\* The test /^[A-Za-z0-9_-]+$/ of devices.approve and plugins.enable.
IdChars == Letters \cup Digits \cup {"_", "-"}

\* A mutated test: only the first character is examined.
MatchesIdFirstOnly(s) == s # <<>> /\ s[1] \in IdChars

MatchesId(s) == s # <<>> /\ \A i \in 1..Len(s) : s[i] \in IdChars

\* A line count without floor and ceiling.
TailLinesUnclamped(arg) ==
  LET n == ParseInt(IF arg = <<>> THEN <<"2", "0", "0">> ELSE arg)
  IN IF n.nan \/ n.val <= 0 THEN 200 ELSE n.val

\* The line count of openclaw.logs.tail:
\* Math.max(50, Math.min(1000, Number.parseInt(arg || "200", 10) || 200)).
TailLines(arg) ==
  LET n == ParseInt(IF arg = <<>> THEN <<"2", "0", "0">> ELSE arg)
      v == IF n.nan \/ n.val = 0 THEN 200 ELSE n.val
  IN Max(50, Min(1000, v))

\* The CLI command of the console: the 400 answer, or the argument vector
\* that is handed to runCmd (arg is the trimmed parameter).
ConsoleCli(cmd, arg) ==
  CASE cmd = "openclaw.version" -> [status |-> "run", argv |-> <<"--version">>]
    [] cmd = "openclaw.status" -> [status |-> "run", argv |-> <<"status">>]
    [] cmd = "openclaw.health" -> [status |-> "run", argv |-> <<"health">>]
    [] cmd = "openclaw.doctor" -> [status |-> "run", argv |-> <<"doctor">>]
    [] cmd = "openclaw.logs.tail" ->
         [status |-> "run", argv |-> <<"logs", "--tail", DecimalString(TailLines(arg))>>]
    [] cmd = "openclaw.config.get" ->
         IF arg = <<>> THEN [status |-> "400", argv |-> <<>>]
         ELSE [status |-> "run", argv |-> <<"config", "get", arg>>]
    [] cmd = "openclaw.devices.list" -> [status |-> "run", argv |-> <<"devices", "list">>]
    [] cmd = "openclaw.devices.approve" ->
         IF arg = <<>> \/ ~MatchesId(arg) THEN [status |-> "400", argv |-> <<>>]
         ELSE [status |-> "run", argv |-> <<"devices", "approve", arg>>]
    [] cmd = "openclaw.plugins.list" -> [status |-> "run", argv |-> <<"plugins", "list">>]
    [] cmd = "openclaw.plugins.enable" ->
         IF arg = <<>> \/ ~MatchesId(arg) THEN [status |-> "400", argv |-> <<>>]
         ELSE [status |-> "run", argv |-> <<"plugins", "enable", arg>>]
    [] OTHER -> [status |-> "400", argv |-> <<>>]

\* ----------------------------------------------------------------- inputs
\* content.length > 500_000 is refused by the raw config endpoint.
MaxConfigLen == 500000

\* The upload ceiling of readBodyBuffer: 250 * 1024 * 1024 bytes.
MaxImportBytes == 250 * 1024 * 1024

\* Configuration contents a client may post, and their lengths.
ConfigContents == {"v1", "big"}
ContentLen(x) == IF x = "big" THEN MaxConfigLen + 1 ELSE 2

\* Entry paths of uploaded archives.  In archives of several entries: the
\* configuration file, a workspace file, a parent-directory path and an
\* absolute path.
SamplePaths ==
  {CfgRel,
   <<"w", "/", "a">>,
   <<".", ".", "/", ".", ".", "/", "e">>,
   <<"/", "e">>}

\* In archives of one entry: an inner parent-directory segment, a leading
\* backslash, drive-letter prefixes, a name that only begins with dots and the
\* empty path.
EdgePaths ==
  {<<"w", "/", ".", ".", "/", "e">>,
   <<"\\", "e">>,
   <<"C", ":", "\\", "x">>,
   <<"C", ":", "/", "x">>,
   <<".", ".", "a">>,
   <<>>}

Entries == [path : SamplePaths, data : {"new"}]

RECURSIVE SeqsUpTo(_, _)
SeqsUpTo(S, n) ==
  IF n = 0 THEN {<<>>}
  ELSE LET shorter == SeqsUpTo(S, n - 1)
       IN shorter \cup {Append(q, x) : q \in shorter, x \in S}

\* Upload bodies: every archive of up to MaxEntries entries, the archives of
\* one edge entry, the empty body and a body over the ceiling.
ArchiveBodies ==
  [len : {1000},
   entries : SeqsUpTo(Entries, MaxEntries) \cup {<<[path |-> p, data |-> "new"]>> : p \in EdgePaths}]

OddBodies ==
  {[len |-> 0, entries |-> <<>>],
   [len |-> MaxImportBytes + 1, entries |-> <<[path |-> CfgRel, data |-> "new"]>>]}

\* The bodies used where imports run next to other requests.
FewBodies ==
  {[len |-> 1000, entries |-> <<[path |-> CfgRel, data |-> "v1"]>>],
   [len |-> 0, entries |-> <<>>]}

\* Console parameters: every string of up to MaxArgLen of these characters.
ArgChars == {"a", "7", "-", "_", ";", "|", " "}
ArgInputs == SeqsUpTo(ArgChars, MaxArgLen)

\* Console command fields: each identifier, bare and padded with blanks, and
\* identifiers outside the allowlist.
UnknownCommands == {<<"rm">>, <<>>, <<"gateway.stop", "x">>, <<"openclaw.config.set">>}
CommandInputs ==
  {<<c>> : c \in ALLOWED_CONSOLE_COMMANDS}
    \cup {<<" ", c, " ">> : c \in ALLOWED_CONSOLE_COMMANDS}
    \cup UnknownCommands

LifecycleInputs ==
  {<<c>> : c \in LifecycleCommands} \cup {<<"gateway.stop", "x">>}

\* The console payloads of the CLI commands: the commands that take the
\* parameter with every parameter, the others with none and with one.
ParamCommands ==
  {"openclaw.logs.tail", "openclaw.config.get",
   "openclaw.devices.approve", "openclaw.plugins.enable"}

CliInputs ==
  [cmd : {<<c>> : c \in ParamCommands} \cup {<<" ", "openclaw.plugins.enable", " ">>},
   arg : ArgInputs]
    \cup [cmd : {c \in CommandInputs :
                  \A l \in LifecycleCommands \cup ParamCommands : Trim(c) # <<l>>},
          arg : {<<>>, <<"a">>}]

\* Parameters of openclaw.logs.tail: none, not a number, zero, negative,
\* signed, around the floor and the ceiling, large, and digits followed or
\* led by something else.
TailArgs ==
  {<<>>, <<"a">>, <<"-">>, <<"+">>, <<"a", "7">>, <<".", "5">>, <<"N", "a", "N">>,
   <<"0">>, <<"0", "0">>, <<"-", "0">>, <<"-", "7">>, <<"-", "9", "9", "9", "9">>,
   <<"+", "7", "0">>, <<"1">>, <<"4", "9">>, <<"5", "0">>, <<"5", "1">>,
   <<"2", "0", "0">>, <<"9", "9", "9">>, <<"1", "0", "0", "0">>, <<"1", "0", "0", "1">>,
   <<"0", "0", "7", "0">>, <<"9", "9", "9", "9", "9", "9", "9", "9", "9">>,
   <<"7", "0", "a">>, <<"7", "0", ".", "9">>, <<"1", "e", "3">>, <<"7", "0", " ", "1">>,
   <<" ", "7", "0", " ">>, <<" ">>, <<" ", "-", "7">>}

\* ------------------------------------------------------------- deployment
\* String.prototype.split(sep) on a character list.
RECURSIVE Split(_, _)
Split(p, sep) ==
  IF \A i \in 1..Len(p) : p[i] # sep
  THEN <<p>>
  ELSE LET k == CHOOSE i \in 1..Len(p) : p[i] = sep /\ \A j \in 1..(i - 1) : p[j] # sep
       IN <<SubSeq(p, 1, k - 1)>> \o Split(SubSeq(p, k + 1, Len(p)), sep)

StartsWith(p, q) == Len(q) <= Len(p) /\ SubSeq(p, 1, Len(q)) = q

\* The characters with codes 32..126, in code order (code 96, which a string
\* here cannot hold, is written as "?").
AsciiPrintable ==
  <<" ", "!", "\"", "#", "$", "%", "&", "'", "(", ")", "*", "+", ",", "-", ".", "/",
    "0", "1", "2", "3", "4", "5", "6", "7", "8", "9", ":", ";", "<", "=", ">", "?",
    "@", "A", "B", "C", "D", "E", "F", "G", "H", "I", "J", "K", "L", "M", "N", "O",
    "P", "Q", "R", "S", "T", "U", "V", "W", "X", "Y", "Z", "[", "\\", "]", "^", "_",
    "?", "a", "b", "c", "d", "e", "f", "g", "h", "i", "j", "k", "l", "m", "n", "o",
    "p", "q", "r", "s", "t", "u", "v", "w", "x", "y", "z", "{", "|", "}", "~">>

\* Buffer.prototype.toString("utf8") on one byte: the character of an ASCII
\* code; the inputs here hold no other bytes.
CharOf(b) == IF b - 31 \in DOMAIN AsciiPrintable THEN AsciiPrintable[b - 31] ELSE "?"

\* The base64 alphabet, in value order.
Base64Alphabet ==
  <<"A", "B", "C", "D", "E", "F", "G", "H", "I", "J", "K", "L", "M", "N", "O", "P",
    "Q", "R", "S", "T", "U", "V", "W", "X", "Y", "Z", "a", "b", "c", "d", "e", "f",
    "g", "h", "i", "j", "k", "l", "m", "n", "o", "p", "q", "r", "s", "t", "u", "v",
    "w", "x", "y", "z", "0", "1", "2", "3", "4", "5", "6", "7", "8", "9", "+", "/">>

Base64Value(ch) == (CHOOSE i \in DOMAIN Base64Alphabet : Base64Alphabet[i] = ch) - 1

\* The 6-bit values of the characters up to the first "=", characters outside
\* the alphabet left out.
RECURSIVE Base64Values(_)
Base64Values(s) ==
  IF s = <<>> \/ Head(s) = "=" THEN <<>>
  ELSE IF \E i \in DOMAIN Base64Alphabet : Base64Alphabet[i] = Head(s)
  THEN <<Base64Value(Head(s))>> \o Base64Values(Tail(s))
  ELSE Base64Values(Tail(s))

\* Four 6-bit values make three bytes; a last group of two makes one byte, of
\* three two bytes.
RECURSIVE Base64Bytes(_)
Base64Bytes(v) ==
  IF Len(v) < 2 THEN <<>>
  ELSE IF Len(v) = 2 THEN <<v[1] * 4 + v[2] \div 16>>
  ELSE IF Len(v) = 3 THEN <<v[1] * 4 + v[2] \div 16, (v[2] % 16) * 16 + v[3] \div 4>>
  ELSE <<v[1] * 4 + v[2] \div 16, (v[2] % 16) * 16 + v[3] \div 4, (v[3] % 4) * 64 + v[4]>>
         \o Base64Bytes(SubSeq(v, 5, Len(v)))

\* Buffer.from(encoded, "base64").toString("utf8")
Base64Decode(s) ==
  LET b == Base64Bytes(Base64Values(s)) IN [i \in DOMAIN b |-> CharOf(b[i])]

\* A gate that takes everything after the last ":" for the password.
requireSetupAuthLastColon(password, header) ==
  LET parts == Split(header, " ")
      encoded == IF Len(parts) >= 2 THEN parts[2] ELSE <<>>
      fields == Split(Base64Decode(encoded), ":")
  IN
  IF password = <<>> THEN "500"
  ELSE IF parts[1] # <<"B", "a", "s", "i", "c">> \/ encoded = <<>> THEN "401"
  ELSE IF fields[Len(fields)] # password THEN "401"
  ELSE "next"

\* requireSetupAuth(req, res, next) with SETUP_PASSWORD = password and the
\* request's Authorization header (empty when there is none): the status it
\* answers (401 goes with a WWW-Authenticate challenge), or "next".
requireSetupAuth(password, header) ==
  LET parts == Split(header, " ")
      scheme == parts[1]
      encoded == IF Len(parts) >= 2 THEN parts[2] ELSE <<>>
      decoded == Base64Decode(encoded)
      hasColon == \E i \in DOMAIN decoded : decoded[i] = ":"
      idx == CHOOSE i \in DOMAIN decoded :
               decoded[i] = ":" /\ \A j \in 1..(i - 1) : decoded[j] # ":"
      given == IF hasColon THEN SubSeq(decoded, idx + 1, Len(decoded)) ELSE <<>>
  IN
  IF password = <<>> THEN "500"
  ELSE IF scheme # <<"B", "a", "s", "i", "c">> \/ encoded = <<>> THEN "401"
  ELSE IF given # password THEN "401"
  ELSE "next"

\* process.cwd(): the wrapper's directory in the image.
Cwd == <<"/", "a", "p", "p">>

\* The designated storage root of export and import.
DataRoot == <<"/", "d", "a", "t", "a">>

\* path.resolve's walk over the segments: "" and "." are dropped, ".." drops
\* the segment before it.
RECURSIVE ResolveSegments(_, _)
ResolveSegments(segs, acc) ==
  IF segs = <<>> THEN acc
  ELSE LET g == Head(segs) IN
       IF g = <<>> \/ g = <<".">> THEN ResolveSegments(Tail(segs), acc)
       ELSE IF g = <<".", ".">>
       THEN ResolveSegments(Tail(segs), IF acc = <<>> THEN acc ELSE SubSeq(acc, 1, Len(acc) - 1))
       ELSE ResolveSegments(Tail(segs), Append(acc, g))

RECURSIVE JoinSlash(_)
JoinSlash(segs) ==
  IF segs = <<>> THEN <<>> ELSE <<"/">> \o Head(segs) \o JoinSlash(Tail(segs))

\* path.resolve(p): the normalized absolute path, against process.cwd() when p
\* is relative.
PathResolve(p) ==
  LET abs == IF p # <<>> /\ p[1] = "/" THEN p ELSE Cwd \o <<"/">> \o p
      segs == ResolveSegments(SplitSlash(abs), <<>>)
  IN IF segs = <<>> THEN <<"/">> ELSE JoinSlash(segs)

\* A containment test on the strings as given.
isUnderDirUnresolved(p, root) == StartsWith(p, root)

\* isUnderDir(p, root)
isUnderDir(p, root) ==
  LET abs == PathResolve(p)
      r == PathResolve(root)
  IN abs = r \/ StartsWith(abs, r \o <<"/">>)

\* process.env of the template's deployment: the volume is mounted at /data
\* and holds the state directory ("s" for .openclaw) and the workspace.
TemplateEnv ==
  [SETUP_PASSWORD |-> <<"p">>,
   OPENCLAW_GATEWAY_TOKEN |-> <<"t">>,
   OPENCLAW_STATE_DIR |-> DataRoot \o <<"/", "s">>,
   OPENCLAW_WORKSPACE_DIR |-> DataRoot \o <<"/", "w">>,
   OPENCLAW_CONFIG_PATH |-> <<>>]

BasicScheme == <<"B", "a", "s", "i", "c">>

\* "Basic " followed by the base64 form of "u:p".
TemplateClient == BasicScheme \o <<" ", "d", "T", "p", "w">>

\* const STATE_DIR in the environment e, with its default under the home
\* directory
StateDirOf(e) ==
  IF Trim(e.OPENCLAW_STATE_DIR) # <<>> THEN Trim(e.OPENCLAW_STATE_DIR)
  ELSE <<"/", "r", "o", "o", "t", "/", "s">>

\* const WORKSPACE_DIR in the environment e, with its default in the state
\* directory
WorkspaceDirOf(e) ==
  IF Trim(e.OPENCLAW_WORKSPACE_DIR) # <<>> THEN Trim(e.OPENCLAW_WORKSPACE_DIR)
  ELSE StateDirOf(e) \o <<"/", "w">>

\* Setup passwords: plain, with a colon, padded with blanks, unset.
Passwords == {<<"p">>, <<"q">>, <<"p", ":", "q">>, <<" ", "p", " ">>, <<>>}

\* Authorization headers: none, Basic with the base64 form of "u:p", "u:q",
\* ":p", "p", "p:u" and "u:p:q", another scheme, another case of the scheme
\* name, the scheme alone and two blanks after the scheme.
Headers ==
  {<<>>,
   BasicScheme \o <<" ", "d", "T", "p", "w">>,
   BasicScheme \o <<" ", "d", "T", "p", "x">>,
   BasicScheme \o <<" ", "O", "n", "A", "=">>,
   BasicScheme \o <<" ", "c", "A", "=", "=">>,
   BasicScheme \o <<" ", "c", "D", "p", "1">>,
   BasicScheme \o <<" ", "d", "T", "p", "w", "O", "n", "E", "=">>,
   <<"B", "e", "a", "r", "e", "r", " ", "d", "T", "p", "w">>,
   <<"b", "a", "s", "i", "c", " ", "d", "T", "p", "w">>,
   BasicScheme,
   BasicScheme \o <<" ", " ", "d", "T", "p", "w">>}

\* Deployments whose directories lie under /data, beside it, under a name
\* that /data is a prefix of, behind a "..", relative to the working
\* directory, or are left to their defaults.
StateDirs ==
  {DataRoot \o <<"/", "s">>,
   DataRoot,
   DataRoot \o <<"/">>,
   <<"/", "t", "m", "p", "/", "s">>,
   DataRoot \o <<"/", ".", ".", "/", "s">>,
   DataRoot \o <<"s", "/", "s">>,
   <<"d", "a", "t", "a", "/", "s">>,
   <<>>}

WorkspaceDirs == {DataRoot \o <<"/", "w">>, <<"/", "w">>, <<>>}

Deployments ==
  [SETUP_PASSWORD : {TemplateEnv.SETUP_PASSWORD},
   OPENCLAW_GATEWAY_TOKEN : {TemplateEnv.OPENCLAW_GATEWAY_TOKEN},
   OPENCLAW_STATE_DIR : StateDirs,
   OPENCLAW_WORKSPACE_DIR : WorkspaceDirs,
   OPENCLAW_CONFIG_PATH : {TemplateEnv.OPENCLAW_CONFIG_PATH}]

\* The template's deployment, and one that writes the same directories with
\* ".." and a trailing slash.
RoundTripEnvs ==
  {TemplateEnv,
   [TemplateEnv EXCEPT !.OPENCLAW_STATE_DIR = DataRoot \o <<"/", "w", "/", ".", ".", "/", "s">>,
                       !.OPENCLAW_WORKSPACE_DIR = DataRoot \o <<"/", "w", "/">>]}

\* requireSetupAuth's answers, for these passwords (as trimmed) and headers.
AuthAnswers ==
  [pw \in {Trim(q) : q \in Passwords}, h \in Headers |-> requireSetupAuth(pw, h)]

\* isUnderDir(dir, "/data"), for the directories of these deployments.
UnderData ==
  [dir \in UNION {{StateDirOf(e), WorkspaceDirOf(e)} : e \in Deployments \cup RoundTripEnvs}
     |-> isUnderDir(dir, DataRoot)]

\* ------------------------------------------------------------------- state
VARIABLES
  disk,             \* files below the storage root /data: path -> content
                    \* ("s" and "w" name the state and workspace directory,
                    \* wherever a deployment puts them)
  gatewayProc,      \* let gatewayProc: 0 is null, else the child's id
  gatewayStarting,  \* let gatewayStarting: 0 is null, else the attempt's id
  child,            \* each spawned gateway process, by id
  attempt,          \* each start attempt (the async body of gatewayStarting)
  pc,               \* where each handler is suspended ("idle": no handler)
  req,              \* the request each handler serves
  att,              \* the start attempt a suspended handler awaits
  out,              \* what the last step did outside: responses sent, CLI
                    \* subprocesses launched, archive entries unpacked, signals
  lastGatewayError, \* let lastGatewayError: "null" or the message recorded
  lastGatewayExit,  \* let lastGatewayExit: 0 is null, else the child whose exit
                    \* code and signal are recorded
  lastDoctorAt,     \* let lastDoctorAt: the Date.now() of the last doctor run,
                    \* in ms; 0 is null (the code takes both for "never")
  probe,            \* the call of waitForGatewayReady() that is followed step
                    \* by step (<<>>: none is), a one-element sequence: the
                    \* start attempt that made it, at "fetch" (awaiting fetch
                    \* of paths[path]), "sleep" (awaiting sleep(250), due at
                    \* wake; 0: no timer), "true" / "false" (returned); start
                    \* is the call's Date.now() and res the outcome of its
                    \* last fetch (0: none, or rejected)
  exchange,         \* the proxied exchange that is followed after proxy.web /
                    \* proxy.ws took it over ("off": none is followed)
  signalled,        \* history: for each handler that is followed, the child
                    \* its last kill("SIGTERM") went to (0: none yet); it ends
                    \* with the handler
  env,              \* process.env as read when the module is evaluated
  client,           \* the Authorization header that the run's clients send
  now,              \* the system clock, in ticks of 1 / TicksPerMs ms
  backups           \* the .bak-<timestamp> files next to the configuration
                    \* file, for the timestamps that are followed: "absent" or
                    \* the content

vars ==
  <<disk, gatewayProc, gatewayStarting, child, attempt, pc, req, att, out,
    lastGatewayError, lastGatewayExit, lastDoctorAt, probe, exchange, signalled,
    env, client, now, backups>>

observers == <<exchange, signalled>>

\* What a run never changes: the environment and its clients' credentials.
deployment == <<env, client>>

supervisor ==
  <<gatewayProc, gatewayStarting, child, attempt, lastGatewayError, lastGatewayExit,
    lastDoctorAt, probe>>

NoReq == [kind |-> "none"]

\* The call of waitForGatewayReady() in the start attempt a is followed step
\* by step.
Following(a) == probe # <<>> /\ probe[1].attempt = a

\* The name that disk has for the absolute path abs under /data: the inverse
\* of placing "s" at the state directory and "w" at the workspace.
RelOf(e, abs) ==
  LET a == PathResolve(abs)
      stateAbs == PathResolve(StateDirOf(e))
      workspaceAbs == PathResolve(WorkspaceDirOf(e))
  IN IF StartsWith(a, stateAbs \o <<"/">>)
     THEN <<"s">> \o SubSeq(a, Len(stateAbs) + 1, Len(a))
     ELSE IF StartsWith(a, workspaceAbs \o <<"/">>)
     THEN <<"w">> \o SubSeq(a, Len(workspaceAbs) + 1, Len(a))
     ELSE SubSeq(a, Len(DataRoot) + 2, Len(a))

\* resolveConfigCandidates(): the path that OPENCLAW_CONFIG_PATH names, else
\* the canonical path in the state directory.
resolveConfigCandidates ==
  IF Trim(env.OPENCLAW_CONFIG_PATH) # <<>>
  THEN {RelOf(env, Trim(env.OPENCLAW_CONFIG_PATH))}
  ELSE {CfgRel}

\* configPath(): the first candidate that exists, else the first candidate;
\* there is one candidate.
configPath == CHOOSE p \in resolveConfigCandidates : TRUE

\* A configuration check that always finds a file.
isConfiguredAlways(d) == TRUE

\* isConfigured() on a disk d (a function from the existing paths to content).
isConfiguredOn(d) == \E p \in resolveConfigCandidates : p \in DOMAIN d

isConfigured == isConfiguredOn(disk)

\* const SETUP_PASSWORD = process.env.SETUP_PASSWORD?.trim()
SETUP_PASSWORD == Trim(env.SETUP_PASSWORD)

\* const STATE_DIR
STATE_DIR == StateDirOf(env)

\* const WORKSPACE_DIR
WORKSPACE_DIR == WorkspaceDirOf(env)

\* const GATEWAY_TARGET, with the default host and port
GATEWAY_TARGET == "http://127.0.0.1:18789"

Alive(c) == child[c] \in {"starting", "listening"}

Spawned == {c \in DOMAIN child : child[c] # "none"}

\* ------------------------------------------------------------------ events
\* The handler serving rq answers x; a is the start attempt its
\* ensureGatewayRunning() met (0: none in flight, or no call).
Response(rq, a, x) == [type |-> "response", req |-> rq, att |-> a, res |-> x]

\* runCmd(OPENCLAW_NODE, clawArgs(v)) by the handler serving rq.
RunCmd(rq, v) == [type |-> "runCmd", req |-> rq, argv |-> v]

\* tar.x by the handler serving rq has written the entries at paths ps.
Unpacked(rq, ps) == [type |-> "unpack", req |-> rq, paths |-> ps]

\* gatewayProc.kill("SIGTERM") on child c.
Sigterm(c) == [type |-> "kill", child |-> c, signal |-> "SIGTERM"]

\* ------------------------------------------------------------- supervisor
\* A mutated decision: the in-flight attempt is not consulted.
EnsureOutcomeNoSingleFlight(cfg, proc, starting) ==
  IF ~cfg THEN "notconf"
  ELSE IF proc # 0 THEN "ok"
  ELSE "spawn"

\* ensureGatewayRunning(), the decision of its synchronous part: return
\* {ok: false}, return {ok: true}, create gatewayStarting, or await the
\* gatewayStarting that exists.
EnsureOutcome(cfg, proc, starting) ==
  IF ~cfg THEN "notconf"
  ELSE IF proc # 0 THEN "ok"
  ELSE IF starting = 0 THEN "spawn"
  ELSE "attach"

\* Callers of which the proxy middleware lets the rejection escape.
RespondUncaught(k, o) ==
  CASE k = "boot" -> IF o = "throw" THEN "bootfail" ELSE "booted"
    [] k = "http" -> IF o = "throw" THEN "unhandled rejection" ELSE "tunnel"
    [] k = "upgrade" -> IF o = "throw" THEN "destroy" ELSE "tunnel"
    [] k = "start" -> IF o = "throw" THEN "500" ELSE IF o = "ok" THEN "200" ELSE "200-notstarted"
    [] OTHER -> IF o = "throw" THEN "500" ELSE "200"

\* What each caller answers once its ensureGatewayRunning() has returned
\* {ok: true} ("ok"), returned {ok: false} ("notconf") or thrown ("throw").
Respond(k, o) ==
  CASE k = "boot" -> IF o = "throw" THEN "bootfail" ELSE "booted"
    [] k = "http" -> IF o = "throw" THEN "503" ELSE "tunnel"
    [] k = "upgrade" -> IF o = "throw" THEN "destroy" ELSE "tunnel"
    [] k = "start" -> IF o = "throw" THEN "500" ELSE IF o = "ok" THEN "200" ELSE "200-notstarted"
    [] OTHER -> IF o = "throw" THEN "500" ELSE "200"

\* The caller's name for Respond: console requests answer by command.
CallerOf(rq) ==
  IF rq.kind = "console"
  THEN (IF Trim(rq.cmd) = <<"gateway.start">> THEN "start" ELSE "restart")
  ELSE rq.kind

\* proxy.web / proxy.ws takes over the exchange of a request that is let
\* through; when one exchange is to be followed ("armed"), it is this one.
Follow(evs) ==
  IF exchange = "armed" /\ \E e \in evs : e.type = "response" /\ e.res = "tunnel"
  THEN "open"
  ELSE exchange

\* The handler in slot r (serving rq) answers x and ends; ev is what else the
\* step did outside.
End(r, rq, a, x, ev) ==
  /\ pc' = [pc EXCEPT ![r] = "idle"]
  /\ req' = [req EXCEPT ![r] = NoReq]
  /\ att' = [att EXCEPT ![r] = 0]
  /\ out' = ev \cup {Response(rq, a, x)}
  /\ exchange' = Follow({Response(rq, a, x)})
  /\ signalled' = [h \in DOMAIN signalled |-> IF h = r THEN 0 ELSE signalled[h]]
  /\ UNCHANGED <<deployment, now>>

\* The handler in slot r suspends at p.
Suspend(r, rq, a, p, ev) ==
  /\ pc' = [pc EXCEPT ![r] = p]
  /\ req' = [req EXCEPT ![r] = rq]
  /\ att' = [att EXCEPT ![r] = a]
  /\ out' = ev
  /\ signalled' = [h \in DOMAIN signalled |->
                     IF h = r /\ \E e \in ev : e.type = "kill" THEN gatewayProc
                     ELSE signalled[h]]
  /\ UNCHANGED <<exchange, deployment, now>>

\* ensureGatewayRunning() called by the handler in slot r (serving rq) when
\* gatewayProc holds proc and the disk is d, up to its await of gatewayStarting.
\* startGateway() runs inside it synchronously: it spawns the child, records it
\* in gatewayProc and registers the 'error' and 'exit' listeners.
Ensure(r, rq, proc, d, ev) ==
  LET o == EnsureOutcome(isConfiguredOn(d), proc, gatewayStarting)
      id == Cardinality(Spawned) + 1
  IN
  IF o \in {"notconf", "ok"}
  THEN /\ gatewayProc' = proc
       /\ UNCHANGED <<gatewayStarting, child, attempt, lastGatewayError, lastGatewayExit, lastDoctorAt, probe>>
       /\ End(r, rq, IF o = "ok" THEN gatewayStarting ELSE 0, Respond(CallerOf(rq), o), ev)
  ELSE IF o = "spawn"
  THEN /\ id \in DOMAIN child
       /\ child' = [child EXCEPT ![id] = "starting"]
       /\ gatewayProc' = id
       /\ gatewayStarting' = id
       /\ attempt' = [attempt EXCEPT ![id] = "probing"]
       /\ lastGatewayError' = "null"
       /\ UNCHANGED <<lastGatewayExit, lastDoctorAt, probe>>
       /\ Suspend(r, rq, id, "await", ev)
  ELSE /\ gatewayProc' = proc
       /\ UNCHANGED <<gatewayStarting, child, attempt, lastGatewayError, lastGatewayExit, lastDoctorAt, probe>>
       /\ Suspend(r, rq, gatewayStarting, "await", ev)

\* if (gatewayProc) { gatewayProc.kill("SIGTERM"); await sleep(750); ... }:
\* the handler in slot r signals the recorded child and sleeps at p.
StopBegin(r, rq, p, ev) ==
  /\ gatewayProc # 0
  /\ Suspend(r, rq, 0, p, ev \cup {Sigterm(gatewayProc)})
  /\ UNCHANGED supervisor

\* restartGateway() up to its first await: sleep(750) when a child is recorded,
\* else ensureGatewayRunning().
Restart(r, rq, d, ev) ==
  IF gatewayProc # 0
  THEN StopBegin(r, rq, "rgrace", ev)
  ELSE Ensure(r, rq, gatewayProc, d, ev)

\* restartGateway() after sleep(750): gatewayProc = null, then
\* ensureGatewayRunning().
RestartAfterSleep(r) ==
  /\ pc[r] = "rgrace"
  /\ Ensure(r, req[r], 0, disk, {})
  /\ UNCHANGED <<disk, backups>>

\* A marker that is cleared by .then(): on success only.
ThenOnly(a, o) == IF o = "ok" THEN 0 ELSE a

\* .finally(() => { gatewayStarting = null; }): what gatewayStarting holds
\* once the promise of attempt a settled with outcome o.
Finally(a, o) == 0

\* The attempt a settles with outcome o: the finally callback clears
\* gatewayStarting, then every handler awaiting it resumes (microtasks of the
\* same event) and answers.
Settle(a, o) ==
  LET waiting == {r \in DOMAIN pc : pc[r] = "await" /\ att[r] = a}
      answers == {Response(req[r], a,
                           Respond(CallerOf(req[r]), IF o = "ok" THEN "ok" ELSE "throw"))
                    : r \in waiting}
  IN
  /\ attempt' = [attempt EXCEPT ![a] = o]
  /\ gatewayStarting' = Finally(a, o)
  /\ pc' = [r \in DOMAIN pc |-> IF r \in waiting THEN "idle" ELSE pc[r]]
  /\ req' = [r \in DOMAIN pc |-> IF r \in waiting THEN NoReq ELSE req[r]]
  /\ att' = [r \in DOMAIN pc |-> IF r \in waiting THEN 0 ELSE att[r]]
  /\ out' = answers
  /\ exchange' = Follow(answers)
  /\ signalled' = [h \in DOMAIN signalled |-> IF h \in waiting THEN 0 ELSE signalled[h]]
  /\ UNCHANGED <<deployment, now>>

\* The attempt a goes on after waitForGatewayReady() returned true: it
\* settles as started.
Ready(a) ==
  /\ Settle(a, "ok")
  /\ UNCHANGED <<disk, backups, gatewayProc, child, lastGatewayError, lastGatewayExit,
                 lastDoctorAt>>

\* waitForGatewayReady() returns true: a fetch of the gateway port got an HTTP
\* response, which takes a process listening on that port.
ProbeSuccess(a) ==
  /\ attempt[a] = "probing"
  /\ ~Following(a)
  /\ \E c \in DOMAIN child : child[c] = "listening"
  /\ Ready(a)
  /\ UNCHANGED probe

\* Date.now() at clock reading t, in ms.
DateNow(t) == t \div TicksPerMs

\* The cool-down of runDoctorBestEffort, in ms.
DoctorCoolDownMs == 5 * 60 * 1000

\* A doctor that runs on every failure.
DoctorDueAlways(last, t) == TRUE

\* runDoctorBestEffort() goes on to run the doctor, at Date.now() = t with
\* lastDoctorAt = last: not if (lastDoctorAt && now - lastDoctorAt < 5 * 60 *
\* 1000) return.
DoctorDue(last, t) == ~(last # 0 /\ t - last < DoctorCoolDownMs)

\* The attempt a goes on after waitForGatewayReady() returned false: it
\* throws, records lastGatewayError and calls runDoctorBestEffort().  When the
\* doctor is due its subprocess is launched (runCmd of "doctor") and the
\* attempt awaits it, at "doctor"; else
\* the call returns at once, the attempt rethrows and settles as failed in
\* the same turn.  (Where the clock is not followed, Date.now() stays 0 and
\* every failure runs the doctor.)
NotReady(a) ==
  /\ lastGatewayError' = "start failure"
  /\ IF DoctorDue(lastDoctorAt, DateNow(now))
     THEN /\ lastDoctorAt' = DateNow(now)
          /\ attempt' = [attempt EXCEPT ![a] = "doctor"]
          /\ out' = {}
          /\ UNCHANGED <<gatewayStarting, pc, req, att, observers, deployment, now>>
     ELSE /\ Settle(a, "fail")
          /\ UNCHANGED lastDoctorAt
  /\ UNCHANGED <<disk, backups, gatewayProc, child, lastGatewayExit>>

\* waitForGatewayReady() returns false after 20 s.
ProbeTimeout(a) ==
  /\ attempt[a] = "probing"
  /\ ~Following(a)
  /\ NotReady(a)
  /\ UNCHANGED probe

\* waitForGatewayReady({ timeoutMs: 20_000 }), step by step.
ProbeTimeoutMs == 20000

\* await sleep(250) between two polls.
ProbeSleepMs == 250

\* What a fetch settles with: the status of an HTTP response, or 0 for a
\* rejection (connection refused or reset).
Statuses == {200, 404, 503}

FetchOutcomes == Statuses \cup {0}

\* A probe that takes only a 2xx response for an answer.
RespondedOk(res) == res = 200

\* const res = await fetch(...); if (res) return true: fetch resolves with a
\* Response object, which is truthy whatever its status.
Responded(res) == res \in Statuses

\* The attempt a calls waitForGatewayReady(): start = Date.now(), the loop
\* test holds (0 < timeoutMs) and the first path is fetched.
ProbeBegin(a) ==
  /\ attempt[a] = "probing"
  /\ ~Following(a)
  /\ probe' = <<[attempt |-> a, at |-> "fetch", start |-> DateNow(now), path |-> 1,
                 wake |-> 0, res |-> 0]>>
  /\ out' = {}
  /\ UNCHANGED <<disk, backups, gatewayProc, gatewayStarting, child, attempt,
                 lastGatewayError, lastGatewayExit, lastDoctorAt, pc, req, att,
                 observers, deployment, now>>

\* The pending fetch settles with res.  A response takes a process that
\* listens on the gateway port; it returns true.  A rejection is caught: the
\* next path is fetched, and after the last path sleep(250) is awaited.
FetchSettles(a, res) ==
  /\ attempt[a] = "probing"
  /\ Following(a)
  /\ probe[1].at = "fetch"
  /\ res \in Statuses => \E c \in DOMAIN child : child[c] = "listening"
  /\ IF Responded(res)
     THEN /\ probe' = <<[probe[1] EXCEPT !.at = "true", !.res = res]>>
          /\ Ready(a)
     ELSE /\ probe' = IF probe[1].path = 1
                      THEN <<[probe[1] EXCEPT !.path = 2, !.res = res]>>
                      ELSE <<[probe[1] EXCEPT !.at = "sleep", !.res = res,
                                              !.wake = DateNow(now) + ProbeSleepMs]>>
          /\ out' = {}
          /\ UNCHANGED <<disk, backups, gatewayProc, gatewayStarting, child, attempt,
                         lastGatewayError, lastGatewayExit, lastDoctorAt, pc, req, att,
                         observers, deployment, now>>

\* The timer of sleep(250) fires: the loop tests Date.now() - start <
\* timeoutMs and fetches the first path again, or returns false.
SleepEnds(a) ==
  /\ attempt[a] = "probing"
  /\ Following(a)
  /\ probe[1].at = "sleep"
  /\ DateNow(now) >= probe[1].wake
  /\ IF DateNow(now) - probe[1].start < ProbeTimeoutMs
     THEN /\ probe' = <<[probe[1] EXCEPT !.at = "fetch", !.path = 1, !.wake = 0]>>
          /\ out' = {}
          /\ UNCHANGED <<disk, backups, gatewayProc, gatewayStarting, child, attempt,
                         lastGatewayError, lastGatewayExit, lastDoctorAt, pc, req, att,
                         observers, deployment, now>>
     ELSE /\ probe' = <<[probe[1] EXCEPT !.at = "false", !.wake = 0]>>
          /\ NotReady(a)

\* runDoctorBestEffort() returns: the attempt rethrows and settles as failed.
DoctorDone(a) ==
  /\ attempt[a] = "doctor"
  /\ Settle(a, "fail")
  /\ UNCHANGED <<disk, backups, gatewayProc, child, lastGatewayError, lastGatewayExit, lastDoctorAt, probe>>

\* ------------------------------------------------------ the gateway child
\* The child opens the internal port; one process at a time can hold it.
ChildListen(c) ==
  /\ child[c] = "starting"
  /\ \A o \in DOMAIN child : child[o] # "listening"
  /\ child' = [child EXCEPT ![c] = "listening"]
  /\ out' = {}
  /\ UNCHANGED <<disk, backups, gatewayProc, gatewayStarting, attempt, pc, req, att,
                 lastGatewayError, lastGatewayExit, observers, deployment, now, lastDoctorAt, probe>>

\* The child terminates (a crash, or its reaction to SIGTERM).
ChildExit(c) ==
  /\ Alive(c)
  /\ child' = [child EXCEPT ![c] = "exited"]
  /\ out' = {}
  /\ UNCHANGED <<disk, backups, gatewayProc, gatewayStarting, attempt, pc, req, att,
                 lastGatewayError, lastGatewayExit, observers, deployment, now, lastDoctorAt, probe>>

\* The listener of the child's 'error' event (the process could not be
\* spawned) records the message and sets gatewayProc = null; an 'exit' event
\* may or may not follow.
OnError(c) ==
  /\ child[c] = "starting"
  /\ child' = [child EXCEPT ![c] = "exited"]
  /\ gatewayProc' = 0
  /\ lastGatewayError' = "spawn error"
  /\ out' = {}
  /\ UNCHANGED <<disk, backups, gatewayStarting, attempt, pc, req, att, lastGatewayExit,
                 observers, deployment, now, lastDoctorAt, probe>>

\* An 'exit' listener that spawns the next child by itself.
OnExitRespawn(c) ==
  LET id == Cardinality(Spawned) + 1 IN
  /\ child[c] = "exited"
  /\ id \in DOMAIN child
  /\ child' = [child EXCEPT ![c] = "reaped", ![id] = "starting"]
  /\ gatewayProc' = id
  /\ lastGatewayExit' = c
  /\ out' = {}
  /\ UNCHANGED <<disk, backups, gatewayStarting, attempt, pc, req, att, lastGatewayError,
                 observers, deployment, now, lastDoctorAt, probe>>

\* The listener of the child's 'exit' event records code and signal and sets
\* gatewayProc = null, whichever child gatewayProc holds by then.
OnExit(c) ==
  /\ child[c] = "exited"
  /\ child' = [child EXCEPT ![c] = "reaped"]
  /\ gatewayProc' = 0
  /\ lastGatewayExit' = c
  /\ out' = {}
  /\ UNCHANGED <<disk, backups, gatewayStarting, attempt, pc, req, att, lastGatewayError,
                 observers, deployment, now, lastDoctorAt, probe>>

\* ------------------------------------------------------ module evaluation
\* console.log / console.warn of the migration about the legacy file l.
Logged(text, l) == [type |-> "log", text |-> text, legacy |-> l]

\* The loop of the migration over the legacy names, from number i on: the
\* first one that exists and that renameSync does not throw for (it throws
\* for the files in fails) is renamed and the loop ends.  The result is the
\* disk and what was logged.
RECURSIVE RenameFirstLegacy(_, _, _)
RenameFirstLegacy(d, fails, i) ==
  IF i > Len(LegacyRel) THEN [disk |-> d, log |-> {}]
  ELSE IF LegacyRel[i] \notin DOMAIN d THEN RenameFirstLegacy(d, fails, i + 1)
  ELSE IF LegacyRel[i] \in fails
  THEN LET rest == RenameFirstLegacy(d, fails, i + 1)
       IN [disk |-> rest.disk, log |-> rest.log \cup {Logged("failed", LegacyRel[i])}]
  ELSE [disk |-> RenameFile(d, LegacyRel[i], CfgRel),
        log |-> {Logged("renamed", LegacyRel[i])}]

\* A mutated migration: the canonical file is not looked for.
migrateOverCanonical(explicit, d, fails) ==
  IF explicit # <<>> THEN [disk |-> d, log |-> {}]
  ELSE RenameFirstLegacy(d, fails, 1)

\* migrateLegacyConfigFile(): explicit is the trimmed OPENCLAW_CONFIG_PATH
\* and d the disk.
migrateLegacyConfigFile(explicit, d, fails) ==
  IF explicit # <<>> THEN [disk |-> d, log |-> {}]
  ELSE IF CfgRel \in DOMAIN d THEN [disk |-> d, log |-> {}]
  ELSE RenameFirstLegacy(d, fails, 1)

\* The module is evaluated: the migration runs, the module-level state is
\* set and the server starts to listen.
ModuleLoad(fails) ==
  LET m == migrateLegacyConfigFile(Trim(env.OPENCLAW_CONFIG_PATH), disk, fails) IN
  /\ pc[0] = "load"
  /\ disk' = m.disk
  /\ pc' = [pc EXCEPT ![0] = "boot"]
  /\ out' = m.log
  /\ UNCHANGED <<backups, supervisor, req, att, observers, deployment, now>>

\* ---------------------------------------------------------------- handlers
\* Requests are served once the server listens; a new request takes the
\* lowest free handler slot (the slots are interchangeable).
CanBegin(r) ==
  /\ r \in DOMAIN pc \ {0}
  /\ pc[r] = "idle"
  /\ \A q \in DOMAIN pc \ {0} : q < r => pc[q] # "idle"
  /\ pc[0] \notin {"load", "boot"}

\* The listen callback: auto-start when a configuration exists.
Boot ==
  /\ pc[0] = "boot"
  /\ IF isConfigured
     THEN Ensure(0, req[0], gatewayProc, disk, {})
     ELSE End(0, req[0], 0, "booted", {}) /\ UNCHANGED supervisor
  /\ UNCHANGED <<disk, backups>>

\* app.use(async (req, res) => ...): the catch-all proxy middleware; setup
\* tells whether req.path starts with /setup.
ProxyRequest(r, setup) ==
  LET rq == [kind |-> "http", setup |-> setup] IN
  /\ CanBegin(r)
  /\ IF ~isConfigured /\ ~setup
     THEN End(r, rq, 0, "redirect", {}) /\ UNCHANGED supervisor
     ELSE IF isConfigured
     THEN Ensure(r, rq, gatewayProc, disk, {})
     ELSE End(r, rq, 0, "tunnel", {}) /\ UNCHANGED supervisor
  /\ UNCHANGED <<disk, backups>>

\* server.on("upgrade", ...)
Upgrade(r) ==
  LET rq == [kind |-> "upgrade"] IN
  /\ CanBegin(r)
  /\ IF ~isConfigured
     THEN End(r, rq, 0, "destroy", {}) /\ UNCHANGED supervisor
     ELSE Ensure(r, rq, gatewayProc, disk, {})
  /\ UNCHANGED <<disk, backups>>

\* proxy.web(req, res, {target}) after the hand-over: the backend answers and
\* the library pipes its response to the client.
ProxyRelay ==
  /\ exchange = "open"
  /\ \E c \in DOMAIN child : child[c] = "listening"
  /\ exchange' = "relayed"
  /\ out' = {[type |-> "relay"]}
  /\ UNCHANGED <<disk, backups, supervisor, pc, req, att, signalled, deployment, now>>

\* The connection to the target is refused or reset: the library emits
\* 'error' to the registered listener, which writes the error to the log;
\* the library sends nothing to the client when a listener is registered.
ProxyError ==
  /\ exchange = "open"
  /\ exchange' = "failed"
  /\ out' = {}
  /\ UNCHANGED <<disk, backups, supervisor, pc, req, att, signalled, deployment, now>>

\* Where the file that disk names k lies: "s" is the state directory and "w"
\* the workspace of the environment e, any other name lies in /data.
AbsOf(e, k) ==
  IF k # <<>> /\ k[1] = "s" THEN PathResolve(StateDirOf(e)) \o Tail(k)
  ELSE IF k # <<>> /\ k[1] = "w" THEN PathResolve(WorkspaceDirOf(e)) \o Tail(k)
  ELSE DataRoot \o <<"/">> \o k

\* The working directory and the two paths that the export hands to tar.c:
\* relative to /data when both directories are under it ("." for /data
\* itself), else relative to the root.
ExportRoots(e) ==
  LET stateAbs == PathResolve(StateDirOf(e))
      workspaceAbs == PathResolve(WorkspaceDirOf(e))
      underData(q) == q = DataRoot \/ StartsWith(q, DataRoot \o <<"/">>)
      relative(q) == IF q = DataRoot THEN <<".">> ELSE SubSeq(q, Len(DataRoot) + 2, Len(q))
  IN IF underData(stateAbs) /\ underData(workspaceAbs)
     THEN [cwd |-> DataRoot, paths |-> <<relative(stateAbs), relative(workspaceAbs)>>]
     ELSE [cwd |-> <<"/">>, paths |-> <<Tail(stateAbs), Tail(workspaceAbs)>>]

\* The elements of a finite set in some order.
RECURSIVE SetToSeq(_)
SetToSeq(S) ==
  IF S = {} THEN <<>>
  ELSE LET x == CHOOSE y \in S : TRUE IN <<x>> \o SetToSeq(S \ {x})

\* An archive whose entries carry the files' absolute paths.
tarCreateAbsolute(e, d, cwd, path) ==
  LET dir == PathResolve(cwd \o <<"/">> \o path)
      inside == {k \in DOMAIN d : StartsWith(AbsOf(e, k), dir \o <<"/">>)}
  IN SetToSeq({[path |-> AbsOf(e, k), data |-> d[k]] : k \in inside})

\* tar.c({cwd}, [path]): an entry for each file of disk d below cwd/path,
\* named by path and the file's place below it.
tarCreate(e, d, cwd, path) ==
  LET dir == PathResolve(cwd \o <<"/">> \o path)
      inside == {k \in DOMAIN d : StartsWith(AbsOf(e, k), dir \o <<"/">>)}
      name(k) == path \o SubSeq(AbsOf(e, k), Len(dir) + 1, Len(AbsOf(e, k)))
  IN SetToSeq({[path |-> name(k), data |-> d[k]] : k \in inside})

\* The archive that GET /setup/export streams in the environment e on disk d:
\* the state directory's entries, then the workspace's.
ExportArchive(e, d) ==
  LET x == ExportRoots(e)
  IN tarCreate(e, d, x.cwd, x.paths[1]) \o tarCreate(e, d, x.cwd, x.paths[2])

\* A health body that tells the gateway's target with the token in its URL.
HealthzBodyWithToken(e, d, err, exit, doctorAt) ==
  [ok |-> TRUE,
   wrapper |-> [configured |-> isConfiguredOn(d),
                stateDir |-> StateDirOf(e),
                workspaceDir |-> WorkspaceDirOf(e)],
   gateway |-> [target |-> <<GATEWAY_TARGET, e.OPENCLAW_GATEWAY_TOKEN>>,
                reachable |-> FALSE,
                lastError |-> err,
                lastExit |-> exit,
                lastDoctorAt |-> doctorAt]]

\* The JSON body of GET /healthz in the environment e, on disk d, with
\* lastGatewayError = err, lastGatewayExit = exit and lastDoctorAt = doctorAt.
\* probeGateway is defined nowhere in the module: the call throws a
\* ReferenceError inside the try block and reachable is false.
HealthzBody(e, d, err, exit, doctorAt) ==
  [ok |-> TRUE,
   wrapper |-> [configured |-> isConfiguredOn(d),
                stateDir |-> StateDirOf(e),
                workspaceDir |-> WorkspaceDirOf(e)],
   gateway |-> [target |-> <<GATEWAY_TARGET>>,
                reachable |-> FALSE,
                lastError |-> err,
                lastExit |-> exit,
                lastDoctorAt |-> doctorAt]]

\* GET /healthz: no middleware before it, answered in the turn that receives
\* it.
Healthz(r) ==
  LET body == HealthzBody(env, disk, lastGatewayError, lastGatewayExit, lastDoctorAt) IN
  /\ CanBegin(r)
  /\ End(r, [kind |-> "healthz", body |-> body], 0, "200", {})
  /\ UNCHANGED <<disk, backups, supervisor>>

\* app.<method>(path, requireSetupAuth, handler) for the request rq in slot r:
\* the middleware answers by itself, or calls next() and Handler runs in the
\* same turn.
Gated(r, rq, Handler) ==
  LET a == AuthAnswers[SETUP_PASSWORD, client] IN
  IF a = "next" THEN Handler
  ELSE End(r, rq, 0, a, {}) /\ UNCHANGED <<disk, backups, supervisor>>

\* POST /setup/api/console/run with payload {cmd, arg}.
ConsoleRun(r, cmd, arg) ==
  LET rq == [kind |-> "console", cmd |-> cmd, arg |-> arg]
      c == Trim(cmd)
      name == IF c = <<>> THEN "" ELSE c[1]
      cli == ConsoleCli(name, Trim(arg))
  IN
  /\ CanBegin(r)
  /\ Gated(r, rq,
       /\ IF ~isAllowed(c)
          THEN End(r, rq, 0, "400", {}) /\ UNCHANGED supervisor
          ELSE IF name = "gateway.restart"
          THEN Restart(r, rq, disk, {})
          ELSE IF name = "gateway.stop"
          THEN IF gatewayProc # 0
               THEN StopBegin(r, rq, "grace", {})
               ELSE End(r, rq, 0, "200", {}) /\ UNCHANGED supervisor
          ELSE IF name = "gateway.start"
          THEN Ensure(r, rq, gatewayProc, disk, {})
          ELSE IF cli.status = "400"
          THEN End(r, rq, 0, "400", {}) /\ UNCHANGED supervisor
          ELSE Suspend(r, rq, 0, "cli", {RunCmd(rq, cli.argv)}) /\ UNCHANGED supervisor
       /\ UNCHANGED <<disk, backups>>)

\* The CLI subprocess of a console command closes with exit code `code`.
CliClose(r, code) ==
  /\ pc[r] = "cli"
  /\ End(r, req[r], 0, IF code = 0 THEN "200" ELSE "500", {})
  /\ UNCHANGED <<disk, backups, supervisor>>

\* A stop that clears the handle only once the child has exited.
StopAfterSleepIfExited(r) ==
  /\ pc[r] = "grace"
  /\ gatewayProc' = IF gatewayProc # 0 /\ Alive(gatewayProc) THEN gatewayProc ELSE 0
  /\ IF req[r].kind = "console"
     THEN End(r, req[r], 0, "200", {})
     ELSE Suspend(r, req[r], 0, "reading", {})
  /\ UNCHANGED <<disk, backups, gatewayStarting, child, attempt, lastGatewayError, lastGatewayExit, lastDoctorAt, probe>>

\* The inline stop of gateway.stop and of import, after sleep(750):
\* gatewayProc = null.
StopAfterSleep(r) ==
  /\ pc[r] = "grace"
  /\ gatewayProc' = 0
  /\ IF req[r].kind = "console"
     THEN End(r, req[r], 0, "200", {})
     ELSE Suspend(r, req[r], 0, "reading", {})
  /\ UNCHANGED <<disk, backups, gatewayStarting, child, attempt, lastGatewayError, lastGatewayExit, lastDoctorAt, probe>>

\* A size test that lets every content through.
TooLargeNever(content) == FALSE

\* content.length > 500_000
TooLarge(content) == ContentLen(content) > MaxConfigLen

\* new Date().toISOString() at clock reading t: the time in whole
\* milliseconds (the replace of ":" and "." keeps the digits).
BackupStamp(t) == t \div TicksPerMs

\* The backup files b after if (fs.existsSync(p)) fs.copyFileSync(p,
\* backupPath) at clock reading t on disk d: the copy replaces a file that
\* already has the name.
CopyBackup(b, t, d) ==
  IF configPath \in DOMAIN d /\ BackupStamp(t) \in DOMAIN b
  THEN [b EXCEPT ![BackupStamp(t)] = d[configPath]]
  ELSE b

\* POST /setup/api/config/raw with payload {content}, up to the first await of
\* restartGateway().  disk keeps the files that isConfigured() and import
\* touch; the .bak-<timestamp> copies of the previous content are in backups.
ConfigSet(r, content) ==
  LET rq == [kind |-> "configset", content |-> content]
      d == WriteFile(disk, configPath, content)
  IN
  /\ CanBegin(r)
  /\ Gated(r, rq,
       IF TooLarge(content)
       THEN End(r, rq, 0, "413", {}) /\ UNCHANGED <<disk, backups, supervisor>>
       ELSE /\ disk' = d
            /\ backups' = CopyBackup(backups, now, disk)
            /\ IF isConfiguredOn(d)
               THEN Restart(r, rq, d, {})
               ELSE End(r, rq, 0, "200", {}) /\ UNCHANGED supervisor)

\* POST /setup/api/reset: the configuration file is removed.
Reset(r) ==
  /\ CanBegin(r)
  /\ Gated(r, [kind |-> "reset"],
       /\ disk' = RemoveFile(disk, configPath)
       /\ UNCHANGED backups
       /\ End(r, [kind |-> "reset"], 0, "200", {})
       /\ UNCHANGED supervisor)

\* GET /setup/export: the archive is streamed to the client; nothing on disk
\* changes (files only are kept: the two mkdirSync leave them as they are).
Export(r) ==
  /\ CanBegin(r)
  /\ Gated(r, [kind |-> "export"],
       /\ End(r, [kind |-> "export", archive |-> ExportArchive(env, disk)], 0, "200", {})
       /\ UNCHANGED <<disk, backups, supervisor>>)

\* POST /setup/import up to its first await: refused with 400 unless STATE_DIR
\* and WORKSPACE_DIR are under /data; else the gateway is stopped, then the
\* body is read.
Import(r) ==
  LET rq == [kind |-> "import", total |-> 0] IN
  /\ CanBegin(r)
  /\ Gated(r, [kind |-> "import", refused |-> TRUE],
       /\ IF ~UnderData[STATE_DIR] \/ ~UnderData[WORKSPACE_DIR]
          THEN End(r, [kind |-> "import", refused |-> TRUE], 0, "400", {})
                 /\ UNCHANGED supervisor
          ELSE IF gatewayProc # 0
          THEN StopBegin(r, rq, "grace", {})
          ELSE Suspend(r, rq, 0, "reading", {}) /\ UNCHANGED supervisor
       /\ UNCHANGED <<disk, backups>>)

\* readBodyBuffer settles with the uploaded body: a body over the ceiling
\* rejects (the handler's catch answers 500), an empty one is answered 400, any
\* other is written to the temporary file and tar.x starts.
ReadBody(r, body) ==
  LET rq == [kind |-> "import", total |-> body.len, body |-> body] IN
  /\ pc[r] = "reading"
  /\ IF body.len > MaxImportBytes THEN End(r, rq, 0, "500", {})
     ELSE IF body.len = 0 THEN End(r, rq, 0, "400", {})
     ELSE Suspend(r, rq, 0, "extracting", {})
  /\ UNCHANGED <<disk, backups, supervisor>>

\* A body reader without the ceiling test.
ReadChunkNoLimit(r, n) ==
  /\ pc[r] = "reading"
  /\ req[r].total <= MaxImportBytes
  /\ Suspend(r, [kind |-> "import", total |-> req[r].total + n], 0, "reading", {})
  /\ UNCHANGED <<disk, backups, supervisor>>

\* readBodyBuffer, the 'data' listener on a chunk of n bytes: total += n; over
\* the ceiling the promise rejects with "payload too large" and the request
\* is destroyed (the handler's catch answers 500 with the error's text), else
\* the chunk is kept and the reading goes on.
ReadChunk(r, n) ==
  LET t == req[r].total + n IN
  /\ pc[r] = "reading"
  /\ IF t > MaxImportBytes
     THEN End(r, [kind |-> "import", total |-> t, error |-> "payload too large"],
              0, "500", {})
     ELSE Suspend(r, [kind |-> "import", total |-> t], 0, "reading", {})
  /\ UNCHANGED <<disk, backups, supervisor>>

\* readBodyBuffer, the 'end' listener: the body is the chunks received; an
\* empty one is answered 400, any other is written to the temporary file and
\* tar.x starts on its entries.
ReadEnd(r, entries) ==
  LET t == req[r].total
      body == [len |-> t, entries |-> IF t = 0 THEN <<>> ELSE entries]
      rq == [kind |-> "import", total |-> t, body |-> body]
  IN
  /\ pc[r] = "reading"
  /\ IF t = 0 THEN End(r, rq, 0, "400", {})
     ELSE Suspend(r, rq, 0, "extracting", {})
  /\ UNCHANGED <<disk, backups, supervisor>>

\* tar.x resolves: the unpacked entries are on disk; the gateway is restarted
\* when a configuration exists.
Extract(r) ==
  LET un == tarUnpacked(req[r].body.entries)
      d == WriteEntries(disk, un)
      ev == {Unpacked(req[r], {un[i].path : i \in 1..Len(un)})}
  IN
  /\ pc[r] = "extracting"
  /\ disk' = d
  /\ UNCHANGED backups
  /\ IF isConfiguredOn(d)
     THEN Restart(r, req[r], d, ev)
     ELSE End(r, req[r], 0, "200", ev) /\ UNCHANGED supervisor

\* The system clock moves on.
Tick ==
  /\ now < MaxClock
  /\ now' = now + 1
  /\ out' = {}
  /\ UNCHANGED <<disk, backups, supervisor, pc, req, att, observers, deployment>>

\* ms milliseconds pass while the call of waitForGatewayReady() in attempt a
\* awaits its fetch or its timer.  (The instants that are followed lie a
\* whole number of sleeps after the call's start, or 1 ms before; a timer is
\* followed up to the time it is due, a fetch up to twice the deadline.)
Await(a, ms) ==
  LET t == DateNow(now) + ms
      e == t - probe[1].start IN
  /\ attempt[a] = "probing"
  /\ Following(a)
  /\ probe[1].at \in {"fetch", "sleep"}
  /\ e % ProbeSleepMs \in {0, ProbeSleepMs - 1}
  /\ IF probe[1].at = "sleep" THEN t <= probe[1].wake ELSE e <= 2 * ProbeTimeoutMs
  /\ now' = now + ms * TicksPerMs
  /\ out' = {}
  /\ UNCHANGED <<disk, backups, supervisor, pc, req, att, observers, deployment>>

\* ------------------------------------------------------------ specifications
\* The time up to which the clock is followed where it moves by whole
\* durations: MaxWindows cool-down windows and MaxOffsetMs more, in ms.
MaxOffsetMs == 2

HorizonMs == MaxWindows * DoctorCoolDownMs + MaxOffsetMs

\* ms milliseconds pass.  (The instants that are followed lie at most
\* MaxOffsetMs after a whole number of windows.)
Elapse(ms) ==
  /\ DateNow(now) + ms <= HorizonMs
  /\ (DateNow(now) + ms) % DoctorCoolDownMs <= MaxOffsetMs
  /\ now' = now + ms * TicksPerMs
  /\ out' = {}
  /\ UNCHANGED <<disk, backups, supervisor, pc, req, att, observers, deployment>>

EmptyDisk == [q \in {} |-> "v0"]

\* The state when the module is evaluated up to `first` ("load": nothing
\* yet; "boot": all but the listen callback), for a run with the handler
\* slots `slots` and the child ids `children`, that follows the signals of
\* the handlers `followed` and has its exchange observer at ex.
InitAt(first, disks, slots, children, followed, ex) ==
  /\ disk \in disks
  /\ gatewayProc = 0
  /\ gatewayStarting = 0
  /\ child = [c \in children |-> "none"]
  /\ attempt = [c \in children |-> "none"]
  /\ pc = [r \in slots |-> IF r = 0 THEN first ELSE "idle"]
  /\ req = [r \in slots |-> IF r = 0 THEN [kind |-> "boot"] ELSE NoReq]
  /\ att = [r \in slots |-> 0]
  /\ out = {}
  /\ lastGatewayError = "null"
  /\ lastGatewayExit = 0
  /\ lastDoctorAt = 0
  /\ probe = <<>>
  /\ exchange = ex
  /\ signalled = [r \in followed |-> 0]

\* The state when the server listens.
InitSized(disks, slots, children, followed, ex) ==
  InitAt("boot", disks, slots, children, followed, ex)

\* The environment is one of envs and the clients send one of clients; the
\* backups with the timestamps `stamps` are followed.
InitDeployed(envs, clients, stamps) ==
  /\ env \in envs
  /\ client \in clients
  /\ now = 0
  /\ backups = [s \in stamps |-> "absent"]

TemplateDeployment == InitDeployed({TemplateEnv}, {TemplateClient}, {})

InitWith(disks) == InitSized(disks, Slots, ChildIds, {}, "off") /\ TemplateDeployment

Init == InitWith({EmptyDisk, WriteFile(EmptyDisk, CfgRel, "v0")})

\* The supervisor's own steps and the child's.
Background ==
  \/ \E a \in DOMAIN child : ProbeSuccess(a)
  \/ \E a \in DOMAIN child : ProbeTimeout(a)
  \/ \E a \in DOMAIN child : DoctorDone(a)
  \/ \E c \in DOMAIN child : ChildListen(c)
  \/ \E c \in DOMAIN child : ChildExit(c)
  \/ \E c \in DOMAIN child : OnError(c)
  \/ \E c \in DOMAIN child : OnExit(c)

Next ==
  \/ Boot
  \/ \E r \in Requests, setup \in BOOLEAN : ProxyRequest(r, setup)
  \/ \E r \in Requests : Upgrade(r)
  \/ \E r \in Requests, cmd \in LifecycleInputs : ConsoleRun(r, cmd, <<>>)
  \/ \E r \in Requests : ConfigSet(r, "v1")
  \/ \E r \in Requests : Reset(r)
  \/ \E r \in Requests : Import(r)
  \/ \E r \in Requests : StopAfterSleep(r)
  \/ \E r \in Requests : RestartAfterSleep(r)
  \/ \E r \in Requests, b \in FewBodies : ReadBody(r, b)
  \/ \E r \in Requests : Extract(r)
  \/ Background

Spec == Init /\ [][Next]_vars

\* Imports one at a time, with every archive body, next to the supervisor.
InitImport ==
  InitWith({EmptyDisk,
            WriteFile(EmptyDisk, CfgRel, "v0"),
            WriteFile(WriteFile(EmptyDisk, CfgRel, "v0"), <<"w", "/", "a">>, "old")})

NextImport ==
  \/ Boot
  \/ Import(1)
  \/ StopAfterSleep(1)
  \/ \E b \in ArchiveBodies \cup OddBodies : ReadBody(1, b)
  \/ Extract(1)
  \/ Background

SpecImport == InitImport /\ [][NextImport]_vars

\* The same imports, with the signals of the import handler followed.
InitImportFollowed ==
  /\ InitSized({EmptyDisk,
                WriteFile(EmptyDisk, CfgRel, "v0"),
                WriteFile(WriteFile(EmptyDisk, CfgRel, "v0"), <<"w", "/", "a">>, "old")},
               Slots, ChildIds, Requests, "off")
  /\ TemplateDeployment

SpecImportFollowed == InitImportFollowed /\ [][NextImport]_vars

\* Imports in each of the deployments.
NextDeployed ==
  \/ Boot
  \/ Import(1)
  \/ StopAfterSleep(1)
  \/ \E b \in FewBodies : ReadBody(1, b)
  \/ Extract(1)
  \/ Background

InitDeployments ==
  /\ InitSized({EmptyDisk, WriteFile(EmptyDisk, CfgRel, "v0")}, Slots, ChildIds, {}, "off")
  /\ InitDeployed(Deployments, {TemplateClient}, {})

SpecDeployed == InitDeployments /\ [][NextDeployed]_vars

\* Administrative requests one at a time, for every pairing of the setup
\* passwords with the Authorization headers.
InitAuth ==
  /\ InitSized({EmptyDisk, WriteFile(EmptyDisk, CfgRel, "v0")}, Slots, ChildIds, {}, "off")
  /\ InitDeployed({[TemplateEnv EXCEPT !.SETUP_PASSWORD = pw] : pw \in Passwords},
                  Headers, {})

NextAuth ==
  \/ Boot
  \/ \E cmd \in {<<"gateway.restart">>, <<"openclaw.status">>} : ConsoleRun(1, cmd, <<>>)
  \/ CliClose(1, 0)
  \/ ConfigSet(1, "v1")
  \/ Reset(1)
  \/ Import(1)
  \/ StopAfterSleep(1)
  \/ RestartAfterSleep(1)
  \/ \E b \in FewBodies : ReadBody(1, b)
  \/ Extract(1)
  \/ Background

SpecAuth == InitAuth /\ [][NextAuth]_vars

\* Health probes next to writes and resets of the configuration and to the
\* supervisor, in deployments that differ in the setup password and in the
\* gateway token; the clients' credentials fit the first password only.
Tokens == {<<"t">>, <<"k">>}

Secrets ==
  {[TemplateEnv EXCEPT !.SETUP_PASSWORD = pw, !.OPENCLAW_GATEWAY_TOKEN = tok] :
     pw \in {<<"p">>, <<"q">>}, tok \in Tokens}

NextHealth ==
  \/ Boot
  \/ Healthz(1)
  \/ ConfigSet(1, "v1")
  \/ Reset(1)
  \/ RestartAfterSleep(1)
  \/ Background

InitHealth ==
  /\ InitSized({EmptyDisk, WriteFile(EmptyDisk, CfgRel, "v0")}, Slots, ChildIds, {}, "off")
  /\ InitDeployed(Secrets, {TemplateClient}, {})

SpecHealth == InitHealth /\ [][NextHealth]_vars

\* Exports and imports of exported archives, on a volume that holds a
\* configuration and a workspace file and on an empty one.
FullDisk == WriteFile(WriteFile(EmptyDisk, CfgRel, "v0"), <<"w", "/", "a">>, "old")

ExportedDisks == {FullDisk, WriteFile(FullDisk, CfgRel, "v1")}

\* The bytes of a gzip archive: never none.
ArchiveLen == 1000

NextRoundTrip ==
  \/ Boot
  \/ Export(1)
  \/ ConfigSet(1, "v1")
  \/ RestartAfterSleep(1)
  \/ Import(1)
  \/ StopAfterSleep(1)
  \/ \E d \in ExportedDisks :
       ReadBody(1, [len |-> ArchiveLen, entries |-> ExportArchive(env, d)])
  \/ Extract(1)
  \/ Background

InitRoundTrip ==
  /\ InitSized({EmptyDisk, FullDisk}, Slots, ChildIds, {}, "off")
  /\ InitDeployed(RoundTripEnvs, {TemplateClient}, {})

SpecRoundTrip == InitRoundTrip /\ [][NextRoundTrip]_vars

\* Console requests one at a time, with every command field and parameter.
NextConsole ==
  \/ Boot
  \/ \E p \in CliInputs : ConsoleRun(1, p.cmd, p.arg)
  \/ \E code \in {0, 1} : CliClose(1, code)

SpecConsole == InitWith({EmptyDisk}) /\ [][NextConsole]_vars

\* Log tails one at a time, with every parameter.
NextTail ==
  \/ Boot
  \/ \E cmd \in {<<"openclaw.logs.tail">>, <<" ", "openclaw.logs.tail", " ">>},
        arg \in TailArgs : ConsoleRun(1, cmd, arg)
  \/ \E code \in {0, 1} : CliClose(1, code)

SpecTail == InitWith({EmptyDisk}) /\ [][NextTail]_vars

\* The module's evaluation and the boot on every volume: each of the
\* canonical file and the two legacy files there or not, with the override
\* unset, blank, naming a file of its own and naming a legacy file.
Volumes ==
  LET names == {CfgRel, LegacyRel[1], LegacyRel[2]}
      content(p) == IF p = CfgRel THEN "v0" ELSE IF p = LegacyRel[1] THEN "k0" ELSE "m0"
  IN {[p \in S |-> content(p)] : S \in SUBSET names}

ConfigPaths ==
  {<<>>, <<" ">>, DataRoot \o <<"/", "o">>, DataRoot \o <<"/", "s", "/", "k">>}

InitMigrate ==
  /\ InitAt("load", Volumes, Slots, ChildIds, {}, "off")
  /\ InitDeployed({[TemplateEnv EXCEPT !.OPENCLAW_CONFIG_PATH = p] : p \in ConfigPaths},
                  {TemplateClient}, {})

NextMigrate ==
  \/ \E fails \in SUBSET {LegacyRel[1], LegacyRel[2]} : ModuleLoad(fails)
  \/ Boot
  \/ \E r \in Requests : ProxyRequest(r, FALSE)
  \/ \E r \in Requests : Reset(r)
  \/ Background

SpecMigrate == InitMigrate /\ [][NextMigrate]_vars

\* Start attempts that fail one after another while time passes: the boot
\* and one client's gateway.start requests, with MaxFailures children and a
\* clock that starts 1 ms after the epoch and moves by 1 ms, by the cool-down
\* less 1 ms and by the cool-down.
MaxFailures == 3

DoctorChildren == 1..MaxFailures

Durations == {1, DoctorCoolDownMs - 1, DoctorCoolDownMs}

InitDoctor ==
  /\ InitSized({WriteFile(EmptyDisk, CfgRel, "v0")}, {0, 1}, DoctorChildren, {}, "off")
  /\ env = TemplateEnv
  /\ client = TemplateClient
  /\ now = TicksPerMs
  /\ backups = [s \in {} |-> "absent"]

NextDoctor ==
  \/ Boot
  \/ ConsoleRun(1, <<"gateway.start">>, <<>>)
  \/ \E ms \in Durations : Elapse(ms)
  \/ Background

SpecDoctor == InitDoctor /\ [][NextDoctor]_vars

\* The readiness probe of the start attempt that the boot callback makes,
\* step by step: its fetches settle with any status or are rejected after 0
\* ms, 1 ms, a sleep less 1 ms, a sleep or the whole deadline, while the child
\* comes up, exits or fails to spawn.
ProbeChildren == {1}

FetchDurations == {1, ProbeSleepMs - 1, ProbeSleepMs, ProbeTimeoutMs}

InitProbe ==
  /\ InitSized({WriteFile(EmptyDisk, CfgRel, "v0")}, {0}, ProbeChildren, {}, "off")
  /\ TemplateDeployment

NextProbe ==
  \/ Boot
  \/ \E a \in ProbeChildren : ProbeBegin(a)
  \/ \E a \in ProbeChildren, res \in FetchOutcomes : FetchSettles(a, res)
  \/ \E a \in ProbeChildren : SleepEnds(a)
  \/ \E a \in ProbeChildren, ms \in FetchDurations : Await(a, ms)
  \/ \E a \in ProbeChildren : DoctorDone(a)
  \/ \E c \in ProbeChildren : ChildListen(c)
  \/ \E c \in ProbeChildren : ChildExit(c)
  \/ \E c \in ProbeChildren : OnError(c)
  \/ \E c \in ProbeChildren : OnExit(c)

SpecProbe == InitProbe /\ [][NextProbe]_vars

\* Every fetch settles (a connection is refused, answered or times out),
\* every timer fires and time passes.
ProbeFairness ==
  \A a \in ProbeChildren :
    /\ WF_vars(ProbeBegin(a))
    /\ WF_vars(\E res \in FetchOutcomes : FetchSettles(a, res))
    /\ WF_vars(SleepEnds(a))
    /\ WF_vars(\E ms \in FetchDurations : Await(a, ms))

SpecProbeFair == SpecProbe /\ ProbeFairness

\* Start attempts one after another: the boot callback and one client's
\* gateway.start and gateway.restart requests, with MaxFailures children that
\* come up, exit or fail to spawn.
InitSettle ==
  /\ InitSized({WriteFile(EmptyDisk, CfgRel, "v0")}, {0, 1}, DoctorChildren, {}, "off")
  /\ TemplateDeployment

NextSettle ==
  \/ Boot
  \/ \E cmd \in {<<"gateway.start">>, <<"gateway.restart">>} : ConsoleRun(1, cmd, <<>>)
  \/ RestartAfterSleep(1)
  \/ Background

\* The readiness probe of every attempt returns and the doctor's subprocess
\* closes.
AttemptFairness ==
  \A a \in DoctorChildren :
    /\ WF_vars(ProbeSuccess(a) \/ ProbeTimeout(a))
    /\ WF_vars(DoctorDone(a))

SpecSettleFair == InitSettle /\ [][NextSettle]_vars /\ AttemptFairness

\* Restarts next to each other: the boot callback and gateway.restart
\* requests only, with one more handler and one more child than Spec.
RestartSlots == 0..(NReq + 1)

RestartChildren == 1..(MaxChildren + 1)

InitRestart ==
  /\ InitSized({WriteFile(EmptyDisk, CfgRel, "v0")}, RestartSlots, RestartChildren,
               RestartSlots, "off")
  /\ TemplateDeployment

NextRestart ==
  \/ Boot
  \/ \E r \in RestartSlots \ {0} : ConsoleRun(r, <<"gateway.restart">>, <<>>)
  \/ \E r \in RestartSlots : RestartAfterSleep(r)
  \/ Background

SpecRestart == InitRestart /\ [][NextRestart]_vars

\* Uploads that arrive chunk by chunk: two chunks of these sizes stay under
\* the ceiling, meet it exactly, or pass it by one or two bytes.
ChunkSizes == {MaxImportBytes \div 2, MaxImportBytes \div 2 + 1}

NextUpload ==
  \/ Boot
  \/ Import(1)
  \/ StopAfterSleep(1)
  \/ \E n \in ChunkSizes : ReadChunk(1, n)
  \/ \E p \in SamplePaths : ReadEnd(1, <<[path |-> p, data |-> "new"]>>)
  \/ Extract(1)
  \/ Background

SpecUpload == InitImport /\ [][NextUpload]_vars

\* Proxied HTTP requests on a configured system, with the first exchange
\* that is handed to the proxy followed to its end.
NextProxy ==
  \/ Boot
  \/ \E r \in Requests : ProxyRequest(r, FALSE)
  \/ ProxyRelay
  \/ ProxyError
  \/ Background

InitProxy ==
  /\ InitSized({WriteFile(EmptyDisk, CfgRel, "v0")}, Slots, ChildIds, {}, "armed")
  /\ TemplateDeployment

SpecProxy == InitProxy /\ [][NextProxy]_vars

\* Raw configuration writes next to each other and to the clock, with the
\* backup files of every timestamp followed.
ConfigSlots == 0..(NReq + 1)

Stamps == {BackupStamp(t) : t \in 0..MaxClock}

InitConfig ==
  /\ InitSized({EmptyDisk, WriteFile(EmptyDisk, CfgRel, "v0")}, ConfigSlots, ChildIds,
               {}, "off")
  /\ InitDeployed({TemplateEnv}, {TemplateClient}, Stamps)

NextConfig ==
  \/ Boot
  \/ \E r \in ConfigSlots \ {0}, x \in ConfigContents : ConfigSet(r, x)
  \/ \E r \in ConfigSlots : RestartAfterSleep(r)
  \/ Tick
  \/ Background

SpecConfig == InitConfig /\ [][NextConfig]_vars

\* The same writes, with the signals of each handler followed.
InitConfigFollowed ==
  /\ InitSized({EmptyDisk, WriteFile(EmptyDisk, CfgRel, "v0")}, ConfigSlots, ChildIds,
               ConfigSlots, "off")
  /\ InitDeployed({TemplateEnv}, {TemplateClient}, Stamps)

SpecConfigFollowed == InitConfigFollowed /\ [][NextConfig]_vars

\* ------------------------------------------------------------------ claims
InFlight(a) == attempt[a] \in {"probing", "doctor"}

Responses == {e \in out : e.type = "response"}

\* The handlers that answer with the result of ensureGatewayRunning().
EnsureCaller(rq) ==
  \/ rq.kind \in {"boot", "http", "upgrade", "configset", "import"}
  \/ rq.kind = "console" /\ Trim(rq.cmd) \in {<<"gateway.start">>, <<"gateway.restart">>}

Success(e) == e.res \in {"booted", "tunnel", "200"}

\* C1: while a start attempt is in flight, however many handlers call
\* ensureGatewayRunning(), the child that the attempt spawned is the only
\* child spawned since it began, and every handler that waits waits for
\* that one attempt.
C1_OneSpawnPerAttempt ==
  /\ \A a \in ChildIds :
       InFlight(a) => child[a] # "none" /\ \A c \in ChildIds : c > a => child[c] = "none"
  /\ \A r \in Slots : pc[r] = "await" => att[r] # 0 /\ att[r] = gatewayStarting

\* Two handlers wait for the same attempt in flight.
C1_Witness ==
  \E a \in ChildIds :
    /\ InFlight(a)
    /\ Cardinality({r \in Slots : pc[r] = "await" /\ att[r] = a}) >= 2

\* C2: every caller that met a start attempt answers with that attempt's
\* outcome, so none answers before it has settled and all answer alike.
C2_CallersShareOutcome ==
  \A e \in Responses :
    (EnsureCaller(e.req) /\ e.att # 0) =>
      \/ attempt[e.att] = "ok" /\ Success(e)
      \/ attempt[e.att] = "fail" /\ ~Success(e)

\* C3: at most one spawned child is alive.
C3_AtMostOneAlive == Cardinality({c \in ChildIds : Alive(c)}) <= 1

\* C4: on a configured system a request or upgrade is tunnelled only when the
\* readiness probe has succeeded for the child gatewayProc records.
C4_TunnelOnlyWhenReady ==
  \A e \in Responses :
    (e.res = "tunnel" /\ isConfigured) =>
      gatewayProc # 0 /\ attempt[gatewayProc] = "ok"

\* C5: after the readiness probe timed out, the waiting callers fail and no
\* ensureGatewayRunning() returns success on the strength of the child of
\* the failed attempt.
C5_FailedNotRunning ==
  \A e \in Responses :
    EnsureCaller(e.req) =>
      /\ (e.att # 0 /\ attempt[e.att] = "fail") => ~Success(e)
      /\ Success(e) => ~(gatewayProc # 0 /\ attempt[gatewayProc] = "fail")

\* The archive paths that pass the traversal test, stated on the characters:
\* not empty, no leading / or \, no drive-letter prefix, and no ".." that
\* is a whole segment.
DotDotSegmentAt(p, i) ==
  /\ i + 1 <= Len(p)
  /\ p[i] = "." /\ p[i + 1] = "."
  /\ (i = 1 \/ p[i - 1] = "/")
  /\ (i + 1 = Len(p) \/ p[i + 2] = "/")

TraversalSafe(p) ==
  /\ Len(p) > 0
  /\ p[1] \notin {"/", "\\"}
  /\ ~(Len(p) >= 3 /\ p[1] \in Letters /\ p[2] = ":" /\ p[3] \in {"/", "\\"})
  /\ \A i \in 1..Len(p) : ~DotDotSegmentAt(p, i)

HasUnsafe(entries) == \E i \in 1..Len(entries) : ~TraversalSafe(entries[i].path)

SafePaths(entries) ==
  {entries[i].path : i \in {j \in 1..Len(entries) : TraversalSafe(entries[j].path)}}

Unpacks == {e \in out : e.type = "unpack"}

C7_WrittenEntriesSafe ==
  \A e \in Unpacks : \A p \in e.paths : TraversalSafe(p)

\* An import has written two entries.
C7_Witness ==
  \E e \in Unpacks : Cardinality(e.paths) = 2 /\ Len(e.req.body.entries) = 2

\* C8: no child is alive while an import is extracting.
C8_NoChildWhileExtracting ==
  \A r \in Slots : pc[r] = "extracting" => \A c \in ChildIds : ~Alive(c)

CheckedCommands == {"openclaw.devices.approve", "openclaw.plugins.enable"}

CommandOf(rq) == IF Trim(rq.cmd) = <<>> THEN "" ELSE Trim(rq.cmd)[1]

OnlyIdChars(s) == \A i \in 1..Len(s) : s[i] \in IdChars

Launches == {e \in out : e.type = "runCmd"}

ConsoleResponses == {e \in Responses : e.req.kind = "console"}

\* C9 as claimed: a parameter with a character outside letters, digits, dash
\* and underscore launches no subprocess, for every command that takes one.
C9_BadParamNeverRuns ==
  \A e \in Launches :
    CommandOf(e.req) \in ParamCommands => OnlyIdChars(e.req.arg)

\* C9 as amended: for devices.approve and plugins.enable a parameter that,
\* after its surrounding blanks are trimmed, is empty or has a character
\* outside letters, digits, dash and underscore is answered 400 and launches
\* no subprocess; a launch carries the trimmed parameter as one argument.
C9_CheckedParamRejected ==
  /\ \A e \in Launches :
       CommandOf(e.req) \in CheckedCommands =>
         /\ Trim(e.req.arg) # <<>>
         /\ OnlyIdChars(Trim(e.req.arg))
         /\ e.argv[Len(e.argv)] = Trim(e.req.arg)
  /\ \A r \in Requests :
       (pc[r] = "cli" /\ CommandOf(req[r]) \in CheckedCommands) =>
         OnlyIdChars(Trim(req[r].arg)) /\ Trim(req[r].arg) # <<>>
  /\ \A e \in ConsoleResponses :
       (isAllowed(Trim(e.req.cmd)) /\ CommandOf(e.req) \in CheckedCommands
          /\ ~(OnlyIdChars(Trim(e.req.arg)) /\ Trim(e.req.arg) # <<>>)) =>
         e.res = "400" /\ Launches = {}

\* devices.approve with a ';' inside its parameter was answered 400.
C9_Witness ==
  \E e \in ConsoleResponses :
    /\ CommandOf(e.req) = "openclaw.devices.approve"
    /\ \E i \in 1..Len(e.req.arg) : e.req.arg[i] = ";"
    /\ e.res = "400"

\* C10: a console request whose identifier is not in the allowlist is
\* answered 400 by a step that launches no subprocess, sends no signal and
\* leaves the supervisor and the disk as they were.
C10_UnknownCommandRejected ==
  [][\A e \in out' :
       (e.type = "response" /\ e.req.kind = "console"
          /\ Trim(e.req.cmd) \notin {<<c>> : c \in ALLOWED_CONSOLE_COMMANDS}) =>
         /\ e.res = "400"
         /\ out' = {e}
         /\ UNCHANGED <<supervisor, disk, pc>>]_vars

\* An unknown identifier was answered while a child is recorded.
C10_Witness ==
  \E e \in ConsoleResponses :
    /\ Trim(e.req.cmd) = <<"gateway.stop", "x">>
    /\ e.res = "400"
    /\ gatewayProc # 0

\* C11: in every reachable state at most one start attempt (spawn plus
\* readiness wait) is in flight, and it is the one gatewayStarting holds,
\* whichever handler began it and whatever happened to gatewayProc since.
C11_OneAttemptInFlight ==
  /\ Cardinality({a \in ChildIds : InFlight(a)}) <= 1
  /\ \A a \in ChildIds : InFlight(a) => gatewayStarting = a

\* An attempt is in flight, a handler waits for it, and the handle has been
\* cleared meanwhile (the child exited, or a stop or restart slept through).
C11_Witness ==
  \E a \in ChildIds :
    /\ InFlight(a)
    /\ gatewayProc = 0
    /\ \E r \in Slots : pc[r] = "await" /\ att[r] = a
    /\ \E r \in Slots : pc[r] \in {"grace", "rgrace", "reading"}

\* C12: the supervisor never starts the backend on its own.  A child is
\* spawned only in a step in which a handler of the boot callback, of a
\* proxied request or handshake, or of an administrative action enters its
\* wait for the attempt that spawned it; a step in which a child ends, or
\* its 'error' or 'exit' event is handled, spawns nothing, leaves the
\* attempts alone and at most clears the handle, and the 'exit' event
\* records the exit.
C12_NoAutoRestart ==
  [][/\ \A c \in Spawned' \ Spawned :
          \E r \in Slots :
            /\ pc[r] # "await" /\ pc'[r] = "await" /\ att'[r] = c
            /\ EnsureCaller(req'[r])
     /\ \A c \in Spawned :
          (child'[c] # child[c] /\ child'[c] \in {"exited", "reaped"}) =>
            /\ Spawned' = Spawned
            /\ gatewayProc' \in {gatewayProc, 0}
            /\ UNCHANGED <<gatewayStarting, attempt, pc, disk>>
            /\ child'[c] = "reaped" => gatewayProc' = 0 /\ lastGatewayExit' = c]_vars

\* A child that had become ready has exited, its exit is recorded and the
\* handle cleared; the system is configured, no handler runs and no child is
\* alive.
C12_Witness ==
  /\ lastGatewayExit # 0
  /\ child[lastGatewayExit] = "reaped"
  /\ attempt[lastGatewayExit] = "ok"
  /\ gatewayProc = 0
  /\ isConfigured
  /\ out = {}
  /\ \A c \in ChildIds : ~Alive(c)
  /\ \A r \in Slots : pc[r] = "idle"

\* C13: restart() is stop() followed by ensureRunning(), also when restarts
\* overlap: the start of a restart replaces the child that this restart
\* stopped, so a restart that wakes from its grace sleep spawns a child only
\* when the handle is clear or still holds the child it signalled, never
\* when it holds a child that another restart has started since.
C13_RestartReplacesItsChild ==
  [][\A r \in DOMAIN signalled :
       (pc[r] = "rgrace" /\ pc'[r] = "await" /\ att'[r] \notin Spawned) =>
         gatewayProc \in {0, signalled[r]}]_vars

\* The lifecycle state an observer reads off the supervisor: Stopping while a
\* handler sleeps between kill("SIGTERM") and gatewayProc = null, Starting
\* while gatewayStarting is pending, Running while a child is recorded, and
\* Down (Stopped or Failed) otherwise.
Lifecycle ==
  IF \E r \in DOMAIN pc : pc[r] \in {"grace", "rgrace"} THEN "Stopping"
  ELSE IF gatewayStarting # 0 THEN "Starting"
  ELSE IF gatewayProc # 0 THEN "Running"
  ELSE "Down"

\* C14: the lifecycle state moves only along Stopped -> Starting -> Running
\* -> Stopping -> Stopped, Starting -> Failed and Running -> Failed (a
\* restart passes through Stopped between two statements of one step, a
\* failed supervisor may be started again); in particular a stop, restart or
\* import that arrives during Starting does not move Starting to Stopping.
C14_StrictLifecycle ==
  [][\/ Lifecycle' = Lifecycle
     \/ <<Lifecycle, Lifecycle'>> \in
          {<<"Down", "Starting">>, <<"Starting", "Running">>, <<"Starting", "Down">>,
           <<"Running", "Stopping">>, <<"Running", "Down">>,
           <<"Stopping", "Down">>, <<"Stopping", "Starting">>}]_vars

Kills(evs) == {e \in evs : e.type = "kill"}

\* C15: a stop sends one SIGTERM, to the child the handle records, and
\* sleeps with the handle kept; when the sleep is over the handle is cleared
\* (a restart goes on to ensureGatewayRunning()) whether or not the child has
\* exited, and no further signal is sent; gateway.stop with no child
\* recorded answers at once and changes nothing.
C15_StopIsGraceful ==
  [][/\ \A e \in Kills(out') :
          /\ e.signal = "SIGTERM"
          /\ gatewayProc # 0 /\ e.child = gatewayProc
          /\ Kills(out') = {e}
          /\ UNCHANGED supervisor
          /\ \E r \in Slots :
               pc[r] \notin {"grace", "rgrace"} /\ pc'[r] \in {"grace", "rgrace"}
     /\ \A r \in Slots :
          (pc[r] = "grace" /\ pc'[r] # "grace") =>
            gatewayProc' = 0 /\ child' = child /\ Kills(out') = {}
     /\ \A r \in Slots :
          (pc[r] = "rgrace" /\ pc'[r] # "rgrace") =>
            (gatewayProc' = 0 \/ gatewayProc' \notin Spawned) /\ Kills(out') = {}
     /\ \A e \in out' :
          (/\ e.type = "response" /\ e.req.kind = "console"
           /\ Trim(e.req.cmd) = <<"gateway.stop">>
           /\ pc' = pc) =>
            gatewayProc = 0 /\ out' = {e} /\ UNCHANGED <<supervisor, disk>>]_vars

\* gateway.stop has just answered: the handle is cleared and the child it
\* signalled is still alive.
C15_Witness ==
  \E e \in ConsoleResponses :
    /\ Trim(e.req.cmd) = <<"gateway.stop">>
    /\ e.res = "200"
    /\ gatewayProc = 0
    /\ \E c \in ChildIds : Alive(c)

\* The answers of gateway.start and gateway.restart whose call of
\* ensureGatewayRunning() returned at once.
EnsureReturns(evs) ==
  {e \in evs : /\ e.type = "response" /\ e.req.kind = "console"
               /\ Trim(e.req.cmd) \in {<<"gateway.start">>, <<"gateway.restart">>}
               /\ e.att = 0}

\* C16 as claimed: with no configuration file, a call of
\* ensureGatewayRunning() or of restartGateway() leaves the supervisor state
\* as it was.
C16_UnconfiguredChangesNothing ==
  [][\A e \in EnsureReturns(out') :
       CfgRel \notin DOMAIN disk => UNCHANGED <<gatewayProc, gatewayStarting, child, attempt>>]_vars

\* C16: with no configuration file no step spawns a child;
\* ensureGatewayRunning() reports "not configured" and leaves the supervisor
\* state as it was, and restartGateway() does the same except that it has
\* first stopped the recorded child, so that it leaves the handle cleared.
C16_UnconfiguredNeverSpawns ==
  [][/\ CfgRel \notin DOMAIN disk' => Spawned' = Spawned
     /\ \A e \in EnsureReturns(out') :
          CfgRel \notin DOMAIN disk =>
            /\ UNCHANGED <<disk, gatewayStarting, child, attempt, lastGatewayError,
                           lastGatewayExit>>
            /\ Trim(e.req.cmd) = <<"gateway.start">> =>
                 e.res = "200-notstarted" /\ gatewayProc' = gatewayProc
            /\ Trim(e.req.cmd) = <<"gateway.restart">> =>
                 gatewayProc' = 0
                   /\ (gatewayProc # 0 => \E r \in Slots : pc[r] = "rgrace" /\ pc'[r] = "idle")]_vars

\* gateway.restart has answered on a system without configuration file: no
\* attempt was made, the handle is cleared and the child it signalled is
\* still alive.
C16_Witness ==
  \E e \in EnsureReturns(out) :
    /\ Trim(e.req.cmd) = <<"gateway.restart">>
    /\ CfgRel \notin DOMAIN disk
    /\ gatewayProc = 0
    /\ gatewayStarting = 0
    /\ \E c \in ChildIds : Alive(c)

\* The requests that go through the proxy rather than to an administrative
\* route: upgrades, and HTTP requests whose path does not start with /setup.
Proxied(rq) == rq.kind = "upgrade" \/ (rq.kind = "http" /\ ~rq.setup)

C18_FailureAnswered503 ==
  \A e \in Responses :
    (e.req.kind = "http" /\ e.att # 0 /\ attempt[e.att] = "fail") =>
      /\ e.res = "503"
      /\ lastGatewayError # "null"
      /\ gatewayStarting = 0
      /\ \A r \in Slots : pc[r] = "await" => att[r] # e.att

\* A proxied HTTP request has just been answered 503 after the readiness
\* probe of the attempt it waited for timed out.
C18_Witness ==
  \E e \in Responses :
    /\ e.req.kind = "http"
    /\ e.res = "503"
    /\ attempt[e.att] = "fail"
    /\ lastGatewayError = "start failure"
    /\ pc[1] = "idle"

\* C19: when the connection to the gateway fails after a request has been
\* handed to the proxy, that request is answered with a gateway-error
\* response.
C19_TunnelFailureAnswered ==
  [][(exchange = "open" /\ exchange' = "failed") =>
       \E e \in out' : e.type = "response" /\ e.res \in {"502", "503", "504"}]_vars

\* C20: an import whose body passes the 250MB ceiling is rejected with the
\* error "payload too large" in the very step in which the byte count
\* passes the ceiling: a reader that goes on has received no more than the
\* ceiling, the rejection ends the handler (nothing more is read) and
\* changes neither disk nor supervisor, and only a body within the ceiling
\* reaches the temporary file and tar.x.
C20_OversizeRejected ==
  [][\A r \in Slots :
       pc[r] = "reading" =>
         /\ req[r].total <= MaxImportBytes
         /\ pc'[r] = "reading" => req'[r].total <= MaxImportBytes
         /\ pc'[r] = "extracting" => req'[r].body.len <= MaxImportBytes
         /\ \A e \in out' :
              (e.type = "response" /\ e.req.kind = "import"
                 /\ e.req.total > MaxImportBytes) =>
                /\ e.res = "500" /\ e.req.error = "payload too large"
                /\ out' = {e}
                /\ pc'[r] = "idle"
                /\ UNCHANGED <<disk, supervisor>>]_vars

\* An upload has just been rejected on its third chunk, after two chunks that
\* met the ceiling exactly.
C20_Witness ==
  \E e \in Responses :
    /\ e.req.kind = "import"
    /\ e.res = "500"
    /\ e.req.total > MaxImportBytes + 2
    /\ pc[1] = "idle"

\* A raw configuration write starts in this step: the handler of slot r
\* leaves "idle" for a request of kind configset (a write always goes on to
\* the restart) or answers one at once.
ConfigWrites(r) ==
  /\ pc[r] = "idle"
  /\ pc'[r] # "idle"
  /\ req'[r].kind = "configset"

BackupFiles(b) == {s \in DOMAIN b : b[s] # "absent"}

\* C26: a raw configuration write that finds a configuration file creates
\* exactly one new backup file, which holds the content the file had just
\* before the write, and changes no other backup; a write that finds no file
\* creates no backup.
C26_OneNewBackupPerOverwrite ==
  [][\A r \in DOMAIN pc :
       ConfigWrites(r) =>
         IF CfgRel \in DOMAIN disk
         THEN \E s \in DOMAIN backups :
                /\ backups[s] = "absent"
                /\ backups' = [backups EXCEPT ![s] = disk[CfgRel]]
         ELSE backups' = backups]_vars

\* C27: a backup file, once made, stays as it is: no later write replaces its
\* content and none removes it, so two successive writes on an existing
\* configuration file leave two distinct backups.
C27_BackupsKept ==
  [][\A s \in DOMAIN backups : backups[s] # "absent" => backups'[s] = backups[s]]_vars

\* C28: a raw configuration write whose content is over the ceiling is
\* answered 413 in the step that receives it, as that step's only event, and
\* the step changes neither the configuration file, nor the backups, nor the
\* supervisor; no handler goes on with such a content.
C28_OversizeConfigRejected ==
  [][/\ \A r \in DOMAIN pc :
          req'[r].kind = "configset" => ContentLen(req'[r].content) <= MaxConfigLen
     /\ \A e \in out' :
          (e.type = "response" /\ e.req.kind = "configset"
             /\ ContentLen(e.req.content) > MaxConfigLen) =>
            /\ e.res = "413"
            /\ out' = {e}
            /\ UNCHANGED <<disk, backups, supervisor>>]_vars

\* An oversize write has just been refused while a configuration file, a
\* backup and a running gateway exist.
C28_Witness ==
  /\ \E e \in Responses : e.req.kind = "configset" /\ e.res = "413"
  /\ CfgRel \in DOMAIN disk
  /\ BackupFiles(backups) # {}
  /\ gatewayProc # 0

\* The import handler of slot r moves in this step.
ImportMoves(r) ==
  /\ pc'[r] # pc[r]
  /\ req[r].kind = "import" \/ req'[r].kind = "import"

EntryPaths(rq) == {rq.body.entries[i].path : i \in 1..Len(rq.body.entries)}

\* C23: no step of an import removes a file that exists under the storage
\* root, and a file whose content it changes is at the path of an entry of
\* the archive that is being unpacked.
C23_ImportAdditiveOnly ==
  [][\A r \in DOMAIN pc :
       ImportMoves(r) =>
         \A p \in DOMAIN disk :
           /\ p \in DOMAIN disk'
           /\ disk'[p] # disk[p] => pc[r] = "extracting" /\ p \in EntryPaths(req[r])]_vars

\* An archive that holds the workspace file only has just been unpacked over
\* a disk with both files: the workspace file is replaced, the configuration
\* file is as it was.
C23_Witness ==
  /\ \E e \in out : e.type = "unpack" /\ e.paths = {<<"w", "/", "a">>}
  /\ disk = WriteFile(WriteFile(EmptyDisk, CfgRel, "v0"), <<"w", "/", "a">>, "new")

\* res.send("OK - imported backup into /data and restarted gateway.\n")
ReportsRestart(e) == e.type = "response" /\ e.req.kind = "import" /\ e.res = "200"

\* C24: the step in which the extraction ends goes on to restartGateway()
\* when a configuration file then exists and otherwise ends the handler
\* without touching the supervisor; and an import answers that the gateway
\* was restarted only when its restartGateway() has run (the answer then
\* comes out of the start attempt it awaited).
C24_RestartReportedIffPerformed ==
  [][/\ \A r \in DOMAIN pc :
          (pc[r] = "extracting" /\ pc'[r] # "extracting") =>
            IF isConfiguredOn(disk')
            THEN pc'[r] \in {"rgrace", "await"}
            ELSE pc'[r] = "idle" /\ UNCHANGED supervisor
     /\ \A e \in out' : ReportsRestart(e) => e.att # 0]_vars

\* The import request rq fails validation: its body is over the ceiling or
\* empty, or its archive holds an entry with an unsafe path.
FailsValidation(rq) ==
  \/ rq.total > MaxImportBytes
  \/ rq.total = 0
  \/ "body" \in DOMAIN rq /\ HasUnsafe(rq.body.entries)

\* C21: an import that fails validation is answered with a client error
\* (400 or 413) by a handler that has come no further than reading the
\* body, so that nothing was unpacked, and that has sent the gateway no
\* signal.
C21_ValidationBeforeMutation ==
  [][\A e \in out' :
       (e.type = "response" /\ e.req.kind = "import" /\ FailsValidation(e.req)) =>
         /\ e.res \in {"400", "413"}
         /\ \E r \in DOMAIN signalled :
              pc[r] = "reading" /\ pc'[r] = "idle" /\ signalled[r] = 0]_vars

\* The directory p lies under the storage root: its segments, once "." and
\* ".." are worked out from the root or the working directory, begin with
\* those of /data.
LiesUnderData(p) ==
  LET from(q) == IF q # <<>> /\ q[1] = "/" THEN q ELSE Cwd \o <<"/">> \o q
      a == ResolveSegments(SplitSlash(from(p)), <<>>)
      d == ResolveSegments(SplitSlash(DataRoot), <<>>)
  IN Len(d) <= Len(a) /\ SubSeq(a, 1, Len(d)) = d

\* C22: when the state directory or the workspace directory lies outside
\* /data, an import request is answered 400 as the only event of its step,
\* which changes neither files nor supervisor; no import handler is ever in
\* flight, so none stops the gateway, reads a body or unpacks.
C22_ImportRefusedOutsideRoot ==
  [][(~LiesUnderData(STATE_DIR) \/ ~LiesUnderData(WORKSPACE_DIR)) =>
       /\ \A r \in DOMAIN pc : req'[r].kind # "import"
       /\ \A e \in out' : e.type \notin {"kill", "unpack"}
       /\ \A e \in out' :
            (e.type = "response" /\ e.req.kind = "import") =>
              /\ e.res = "400"
              /\ out' = {e}
              /\ UNCHANGED <<disk, backups, supervisor>>]_vars

\* An import has just been refused while the gateway listens, in a
\* deployment whose state directory is written as /data/../s.
C22_Witness ==
  /\ \E e \in Responses : e.req.kind = "import" /\ e.res = "400"
  /\ gatewayProc # 0
  /\ child[gatewayProc] = "listening"
  /\ StartsWith(STATE_DIR, DataRoot \o <<"/">>)
  /\ ~LiesUnderData(STATE_DIR)

\* The code of an ASCII character.
CodeOf(ch) == 31 + CHOOSE i \in DOMAIN AsciiPrintable : AsciiPrintable[i] = ch

\* The base64 form of a list of bytes (RFC 4648, with padding).
RECURSIVE Base64Encode(_)
Base64Encode(b) ==
  LET A(v) == Base64Alphabet[v + 1] IN
  IF b = <<>> THEN <<>>
  ELSE IF Len(b) = 1
  THEN <<A(b[1] \div 4), A((b[1] % 4) * 16), "=", "=">>
  ELSE IF Len(b) = 2
  THEN <<A(b[1] \div 4), A((b[1] % 4) * 16 + b[2] \div 16), A((b[2] % 16) * 4), "=">>
  ELSE <<A(b[1] \div 4), A((b[1] % 4) * 16 + b[2] \div 16),
         A((b[2] % 16) * 4 + b[3] \div 64), A(b[3] % 64)>>
         \o Base64Encode(SubSeq(b, 4, Len(b)))

\* The header is Basic credentials (RFC 7617) whose password is pw: the
\* word Basic, one blank and the base64 form of user-id ":" password.
CarriesPassword(header, pw) ==
  \E user \in {<<>>, <<"u">>, <<"p">>} :
    LET text == user \o <<":">> \o pw IN
    header = BasicScheme \o <<" ">> \o Base64Encode([i \in DOMAIN text |-> CodeOf(text[i])])

AdminKinds == {"console", "configset", "reset", "import"}

\* C29: with SETUP_PASSWORD set and clients whose Authorization header is
\* not Basic credentials with that password, every administrative request is
\* answered 401 (with the challenge) as the only event of its step, which
\* changes neither files nor supervisor; no administrative handler is ever
\* in flight, no subprocess is run, nothing is unpacked and no signal sent.
C29_AdminNeedsPassword ==
  [][(SETUP_PASSWORD # <<>> /\ ~CarriesPassword(client, SETUP_PASSWORD)) =>
       /\ \A r \in DOMAIN pc : req'[r].kind \notin AdminKinds
       /\ \A e \in out' : e.type \notin {"runCmd", "unpack", "kill"}
       /\ \A e \in out' :
            (e.type = "response" /\ e.req.kind \in AdminKinds) =>
              /\ e.res = "401"
              /\ out' = {e}
              /\ UNCHANGED <<disk, backups, supervisor>>]_vars

\* A raw configuration write with well-formed credentials for another
\* password has just been answered 401 while the gateway runs.
C29_Witness ==
  /\ \E e \in Responses : e.req.kind = "configset" /\ e.res = "401"
  /\ SETUP_PASSWORD = <<"p">>
  /\ CarriesPassword(client, <<"q">>)
  /\ gatewayProc # 0

\* The environment e with the setup password pw and the gateway token tok.
WithSecrets(e, pw, tok) ==
  [e EXCEPT !.SETUP_PASSWORD = pw, !.OPENCLAW_GATEWAY_TOKEN = tok]

\* C30: the body that GET /healthz answers with is the body it would answer
\* with in the same state of a run that has any other setup password and
\* gateway token.
C30_HealthzIndependentOfSecrets ==
  [][\A e \in out' :
       (e.type = "response" /\ e.req.kind = "healthz") =>
         \A pw \in Passwords, tok \in Tokens :
           e.req.body = HealthzBody(WithSecrets(env, pw, tok), disk,
                                    lastGatewayError, lastGatewayExit, lastDoctorAt)]_vars

\* A health probe has just been answered on a configured system after a
\* failed start and a child's exit were recorded.
C30_Witness ==
  \E e \in Responses :
    /\ e.req.kind = "healthz"
    /\ e.req.body.wrapper.configured
    /\ e.req.body.gateway.lastError # "null"
    /\ e.req.body.gateway.lastExit # 0
    /\ env.OPENCLAW_GATEWAY_TOKEN = <<"k">>

\* C25: an export answers with the archive of the disk as it is, and when
\* the archive exported from a disk d that holds a configuration file is
\* unpacked into an empty storage root of the same deployment, the
\* configuration file is there at the same path with the content it has in
\* d; so is every other file of d.
C25_ExportImportRoundTrip ==
  [][/\ \A e \in out' :
          (e.type = "response" /\ e.req.kind = "export") =>
            e.req.archive = ExportArchive(env, disk) /\ disk' = disk
     /\ \A r \in DOMAIN pc, d \in ExportedDisks :
          (/\ pc[r] = "extracting" /\ pc'[r] # "extracting"
           /\ disk = EmptyDisk
           /\ req[r].body.entries = ExportArchive(env, d)) =>
            /\ CfgRel \in DOMAIN disk'
            /\ disk'[CfgRel] = d[CfgRel]
            /\ disk' = d]_vars

\* The archive of the disk with the rewritten configuration has just been
\* unpacked on a system that started empty: the boot callback spawned
\* nothing, the first child is the one that this import starts.
C25_Witness ==
  /\ \E e \in out : e.type = "unpack" /\ e.paths = DOMAIN FullDisk
  /\ disk = WriteFile(FullDisk, CfgRel, "v1")
  /\ pc[0] = "idle"
  /\ gatewayStarting = 1
  /\ gatewayProc = 1

\* The number that a list of digits without a sign spells.
DecimalValue(s) == DigitPrefix(s, 0)

\* A parameter that Number.parseInt reads no number from: after its leading
\* blanks and an optional sign there is no digit.
NotANumber(arg) ==
  LET t == TrimLeft(arg)
      u == IF t # <<>> /\ t[1] \in {"+", "-"} THEN Tail(t) ELSE t
  IN u = <<>> \/ u[1] \notin Digits

\* C38: for every parameter of the log-tail command (empty, not a number,
\* zero, negative or large) the line count handed to the backend CLI is the
\* decimal form of an integer between 50 and 1000 inclusive, and of 200 when
\* the parameter is empty or not a number.
C38_TailLinesClamped ==
  \A e \in Launches :
    CommandOf(e.req) = "openclaw.logs.tail" =>
      LET count == e.argv[Len(e.argv)] IN
      /\ e.argv = <<"logs", "--tail", count>>
      /\ count # <<>>
      /\ \A i \in 1..Len(count) : count[i] \in Digits
      /\ count[1] # "0"
      /\ DecimalValue(count) >= 50
      /\ DecimalValue(count) <= 1000
      /\ NotANumber(Trim(e.req.arg)) => DecimalValue(count) = 200

\* A parameter of nine digits was launched with the ceiling as its count.
C38_Witness ==
  \E e \in Launches :
    /\ CommandOf(e.req) = "openclaw.logs.tail"
    /\ Len(Trim(e.req.arg)) = 9
    /\ e.argv[3] = <<"1", "0", "0", "0">>

\* The legacy files that a step took away.
LegacyMoved == {i \in 1..Len(LegacyRel) : LegacyRel[i] \in DOMAIN disk /\ LegacyRel[i] \notin DOMAIN disk'}

\* C34: the migration at module evaluation renames at most one legacy
\* configuration file to the canonical name, and only when no override path
\* is set and no canonical file exists; in every other case it changes no
\* file; it never overwrites an existing canonical file; and whether or not
\* a rename failed, the boot goes on.
C34_LegacyMigration ==
  [][pc[0] = "load" =>
       /\ pc'[0] = "boot"
       /\ Cardinality(LegacyMoved) <= 1
       /\ disk' # disk =>
            /\ Trim(env.OPENCLAW_CONFIG_PATH) = <<>>
            /\ CfgRel \notin DOMAIN disk
            /\ \E i \in LegacyMoved : disk' = RenameFile(disk, LegacyRel[i], CfgRel)
       /\ CfgRel \in DOMAIN disk => disk' = disk]_vars

\* Renaming clawdbot.json failed, moltbot.json was renamed, and the boot
\* callback has started the gateway from it.
C34_Witness ==
  /\ pc[0] = "await"
  /\ gatewayProc # 0
  /\ DOMAIN disk = {CfgRel, LegacyRel[1]}
  /\ disk[CfgRel] = "m0"

\* The attempts whose runDoctorBestEffort() launches the doctor in this step.
DoctorRuns == {a \in DOMAIN attempt : attempt[a] = "probing" /\ attempt'[a] = "doctor"}

\* C31: across failed start attempts the doctor is launched at most once per
\* 5-minute window.  lastDoctorAt changes only when a doctor is launched and
\* then holds the time of the launch; a launch comes with no earlier launch
\* or at least 5 minutes after the last one; and a start attempt that fails
\* less than 5 minutes after the last launch launches none.
C31_DoctorRateLimited ==
  [][/\ DoctorRuns # {} =>
          /\ Cardinality(DoctorRuns) = 1
          /\ lastDoctorAt' = DateNow(now')
          /\ lastDoctorAt = 0 \/ DateNow(now') - lastDoctorAt >= 5 * 60 * 1000
     /\ lastDoctorAt' # lastDoctorAt => DoctorRuns # {}
     /\ \A a \in DOMAIN attempt :
          (/\ attempt[a] = "probing" /\ attempt'[a] # "probing"
           /\ lastGatewayError' = "start failure"
           /\ lastDoctorAt # 0
           /\ DateNow(now) - lastDoctorAt < 5 * 60 * 1000) =>
            DoctorRuns = {} /\ attempt'[a] = "fail"]_vars

\* The third failure launches the second doctor, 5 minutes after the first;
\* the failure in between launched none.
C31_Witness ==
  /\ lastDoctorAt = 1 + 5 * 60 * 1000
  /\ \E a \in DOMAIN attempt : attempt[a] = "doctor" /\ a = 3
  /\ attempt[1] = "fail" /\ attempt[2] = "fail"

\* C32: the readiness probe returns true in the very step in which a fetch of
\* one of its two paths settles with a response, whatever the status, and
\* only then; it goes on polling after a rejection; it returns false only
\* from the loop test after a sleep, exactly when the deadline has elapsed by
\* then, no poll having got a response; a returned value stays; and every
\* call returns.
C32_ProbeTrueOrFalse ==
  /\ [][\A i \in DOMAIN probe :
          /\ probe'[i].at \in {"fetch", "sleep", "true", "false"}
          /\ (probe[i].at = "fetch" /\ probe'[i] # probe[i]) =>
               IF probe'[i].res \in {200, 404, 503}
               THEN probe'[i].at = "true" /\ attempt'[probe[i].attempt] = "ok"
               ELSE probe'[i].at \in {"fetch", "sleep"} /\ probe'[i].res = 0
          /\ (probe'[i].at = "true" /\ probe[i].at # "true") =>
               probe[i].at = "fetch" /\ probe'[i].res # 0
          /\ (probe'[i].at = "false" /\ probe[i].at # "false") =>
               probe[i].at = "sleep" /\ probe[i].res = 0
          /\ (probe[i].at = "sleep" /\ probe'[i] # probe[i]) =>
               (probe'[i].at = "false" <=> DateNow(now) - probe[i].start >= 20000)
          /\ probe[i].at \in {"true", "false"} => probe'[i] = probe[i]]_vars
  /\ (probe # <<>>) ~> (probe # <<>> /\ probe[1].at \in {"true", "false"})

\* The fetch of the second path was answered after the deadline had passed,
\* with a 503: the probe returned true and the attempt settled as started.
C32_Witness ==
  /\ probe # <<>>
  /\ probe[1].at = "true"
  /\ probe[1].res = 503
  /\ probe[1].path = 2
  /\ DateNow(now) - probe[1].start > 20000
  /\ attempt[1] = "ok"

\* The attempt a has settled.
Settled(a) == attempt[a] \in {"ok", "fail"}

ConfigSetAnswersOk(r) ==
  /\ req[r].kind = "configset"
  /\ pc[r] # "idle" /\ pc'[r] = "idle"
  /\ \E e \in out' : e.type = "response" /\ e.req = req[r] /\ e.res = "200"

\* C33: when a raw config set answers ok, the child that its restart
\* signalled, which was started before the write, is no longer running and
\* is not the recorded child.
C33_ConfigSetRestarts ==
  [][\A r \in DOMAIN signalled :
       (ConfigSetAnswersOk(r) /\ signalled[r] # 0) =>
         /\ child'[signalled[r]] \notin {"starting", "listening"}
         /\ gatewayProc' # signalled[r]]_vars

\* The 'exit' or 'error' listener of child c runs in this step (or c just
\* terminates).
EventOf(c) ==
  \/ child[c] = "exited" /\ child'[c] = "reaped"
  \/ child[c] = "starting" /\ child'[c] = "exited"

\* The handler in slot r wakes from the sleep that follows its
\* kill("SIGTERM") in this step.
WakesAfterSignal(r) == pc[r] \in {"grace", "rgrace"} /\ pc'[r] # pc[r]

\* C35: the recorded child is dropped only on behalf of itself: the exit or
\* error event of another child, and the wake-up of a stop, restart or import
\* that signalled another child, leave the recorded child recorded.
C35_ClearedOnlyForItsChild ==
  [][/\ \A c \in DOMAIN child :
          (EventOf(c) /\ gatewayProc \notin {0, c}) => gatewayProc' = gatewayProc
     /\ \A r \in DOMAIN signalled :
          (WakesAfterSignal(r) /\ gatewayProc \notin {0, signalled[r]}) =>
            gatewayProc' = gatewayProc]_vars

\* The handler in slot r resumes from its await of gatewayStarting in this
\* step and its ensureGatewayRunning() returns {ok: true}.
EnsureReturnsOk(r) ==
  /\ pc[r] = "await" /\ pc'[r] = "idle"
  /\ \E e \in out' : e.type = "response" /\ e.req = req[r] /\ Success(e)

\* C36: when ensureGatewayRunning() returns success to a handler that awaited
\* the start attempt, a child is recorded and that child is alive and
\* listening.
C36_SuccessMeansRecordedLiveChild ==
  [][\A r \in DOMAIN pc :
       EnsureReturnsOk(r) => gatewayProc' # 0 /\ child'[gatewayProc'] = "listening"]_vars

====
